---- MODULE Spec2Model ----
(***************************************************************************)
(* The UNO game module of VoxCoinBot (src/modules/games/uno.py) as a state *)
(* machine.  A handler runs to completion before the next update is        *)
(* dispatched (the Application is built without concurrent updates,        *)
(* src/voxcoinbot.py main).  A handler that mutates and saves before its   *)
(* first await is one action; uno_play and uno_draw await a reply of       *)
(* Telegram between their mutations and are followed await by await: the   *)
(* call runs to the first such await, and the handler goes on when the     *)
(* await returns or ends when it raises (log_handler swallows exceptions). *)
(*                                                                         *)
(* Python values are modelled as follows: a list is a sequence whose last  *)
(* element is the one list.pop() returns; a card tuple (color, value) is   *)
(* the sequence <<color, value>>; a JSON array made by list(card) is the   *)
(* record [list |-> <<color, value>>]; a dict is a function whose DOMAIN   *)
(* is the set of keys; a datetime is a number of hours.                    *)
(***************************************************************************)
EXTENDS Integers, Sequences, FiniteSets, TLC

VARIABLES
    GAMES,      \* the module global GAMES: chat id -> game dict
    disk,       \* the content of uno_games.json (NoFile when it does not exist)
    stats,      \* the content of uno_stats.json: str(chat id) -> list of <<str(user id), wins>>
    now,        \* the clock read by datetime.now(timezone.utc), in hours
    last,       \* the last update handled: handler ("await" while it is suspended),
                \* chat, user, arguments, messages sent
    steps,      \* number of updates handled that changed GAMES or a file
    inflight    \* calls: the handlers suspended at an await with mutations still to
                \* come; heap: the game dicts such handlers hold that GAMES has no more

vars == <<GAMES, disk, stats, now, last, steps, inflight>>

-----------------------------------------------------------------------------
(* Bounds of the model *)

\* updates that change GAMES or a file in one run of the model
MaxSteps == 3

Chats == {1, 2}
Users == {1, 2, 3}

\* the players of the largest session the model starts from
MaxPlayers == 16

\* the latest hour the clock of the model gets to
MaxClock == 49

\* the permutations random.shuffle may produce that the model explores
Shuffles == {"id", "rot"}
\* the rotation the permutation "rot" applies
RotateBy == 25

-----------------------------------------------------------------------------
(* Python helpers *)

\* uno_games.json does not exist
NoFile == [exists |-> FALSE, content |-> [k \in {} |-> k]]

\* uno_games.json holds this JSON object
File(content) == [exists |-> TRUE, content |-> content]
None == "None"

\* str(n) of an int
StrOf(n) == ToString(n)

\* int(s) of a string written by str(n)
IntOf(s) == CHOOSE n \in (Chats \cup Users \cup 1..MaxPlayers) : ToString(n) = s

\* datetime.isoformat()
isoformat(t) == <<"iso", ToString(t)>>

\* datetime.fromisoformat()
fromisoformat(s) == CHOOSE t \in 0..99 : isoformat(t) = s

\* list(card) for a card tuple, as json.dumps writes it
ListOfCard(card) == [list |-> card]

\* tuple(card) for a JSON array read by json.loads
TupleOfCard(arr) == arr.list

\* x in lst
InList(x, lst) == \E i \in 1..Len(lst) : lst[i] = x

\* a faulty removal that takes every copy of x out of the list
RECURSIVE ListRemoveAll(_, _)
ListRemoveAll(lst, x) ==
    IF lst = <<>> THEN <<>>
    ELSE (IF Head(lst) = x THEN <<>> ELSE <<Head(lst)>>) \o ListRemoveAll(Tail(lst), x)

\* lst.remove(x): removes the first occurrence
ListRemove(lst, x) ==
    LET i == CHOOSE k \in 1..Len(lst) : lst[k] = x /\ \A j \in 1..(k - 1) : lst[j] # x
    IN  SubSeq(lst, 1, i - 1) \o SubSeq(lst, i + 1, Len(lst))

\* [lst.pop() for _ in range(k)]: the last k elements, the last one first
PopMany(lst, k) == [i \in 1..k |-> lst[Len(lst) + 1 - i]]

\* lst after k calls of lst.pop()
AfterPops(lst, k) == SubSeq(lst, 1, Len(lst) - k)

\* the permutation that moves the first k elements to the end
Rotate(lst, k) ==
    IF Len(lst) = 0 THEN lst
    ELSE [i \in 1..Len(lst) |-> lst[((i - 1 + k) % Len(lst)) + 1]]

\* random.shuffle(lst): one of the explored permutations
Shuffle(lst, kind) ==
    CASE kind = "id"  -> lst
      [] kind = "rot" -> Rotate(lst, RotateBy)

-----------------------------------------------------------------------------
(* Card and deck model *)

COLORS == <<"red", "green", "blue", "yellow">>

ColorSet == {COLORS[i] : i \in 1..Len(COLORS)}

ColoredSpecials == <<"skip", "reverse", "draw2">>

\* the cards create_deck appends for one colour, in order
ColorCards(c) ==
    <<<<c, "0">>>>
    \o [i \in 1..18 |-> <<c, ToString((i + 1) \div 2)>>]
    \o [i \in 1..6 |-> <<c, ColoredSpecials[(i + 1) \div 2]>>]

RECURSIVE AllColorCards(_)
AllColorCards(i) ==
    IF i > Len(COLORS) THEN <<>> ELSE ColorCards(COLORS[i]) \o AllColorCards(i + 1)

\* the deck of create_deck before random.shuffle
OrderedDeck ==
    AllColorCards(1)
    \o [i \in 1..4 |-> <<"wild", "wild">>]
    \o [i \in 1..4 |-> <<"wild", "wild4">>]

create_deck(kind) == Shuffle(OrderedDeck, kind)

\* a faulty advance_turn, without the modulo
advance_turn_no_mod(g) ==
    [g EXCEPT !.current = g.current + g.direction]

\* advance_turn: the new value of game["current"]
advance_turn(g) ==
    [g EXCEPT !.current = (g.current + g.direction) % Len(g.players)]


-----------------------------------------------------------------------------
(* Python dict helpers *)

EmptyDict == [k \in {} |-> k]

DictSet(d, key, v) == [k \in (DOMAIN d) \cup {key} |-> IF k = key THEN v ELSE d[k]]

DictDel(d, key) == [k \in (DOMAIN d) \ {key} |-> d[k]]

\* SPECIAL values are only used to display a card
SpecialKeys == {"skip", "reverse", "draw2", "wild", "wild4"}

-----------------------------------------------------------------------------
(* Persistence: save_games, load_games, cleanup_old_games, initialize_games *)

\* a faulty serialisation that leaves the colour declared with a wild out
SerializeGameTopColor(g) ==
    [ players       |-> g.players,
      hands         |-> [k \in {StrOf(u) : u \in DOMAIN g.hands} |->
                            [i \in 1..Len(g.hands[IntOf(k)]) |-> ListOfCard(g.hands[IntOf(k)][i])]],
      deck          |-> [i \in 1..Len(g.deck) |-> ListOfCard(g.deck[i])],
      pile          |-> [i \in 1..Len(g.pile) |-> ListOfCard(g.pile[i])],
      current       |-> g.current,
      direction     |-> g.direction,
      current_color |-> IF Len(g.pile) > 0 THEN g.pile[Len(g.pile)][1] ELSE g.current_color,
      started       |-> g.started,
      last_active   |-> isoformat(g.last_active) ]

\* one entry of ser in save_games
SerializeGame(g) ==
    [ players       |-> g.players,
      hands         |-> [k \in {StrOf(u) : u \in DOMAIN g.hands} |->
                            [i \in 1..Len(g.hands[IntOf(k)]) |-> ListOfCard(g.hands[IntOf(k)][i])]],
      deck          |-> [i \in 1..Len(g.deck) |-> ListOfCard(g.deck[i])],
      pile          |-> [i \in 1..Len(g.pile) |-> ListOfCard(g.pile[i])],
      current       |-> g.current,
      direction     |-> g.direction,
      current_color |-> g.current_color,
      started       |-> g.started,
      last_active   |-> isoformat(g.last_active) ]

\* a faulty load that does not read the direction and takes the initial one
DeserializeGameForward(j) ==
    [ players       |-> j.players,
      hands         |-> [u \in {IntOf(k) : k \in DOMAIN j.hands} |->
                            [i \in 1..Len(j.hands[StrOf(u)]) |-> TupleOfCard(j.hands[StrOf(u)][i])]],
      deck          |-> [i \in 1..Len(j.deck) |-> TupleOfCard(j.deck[i])],
      pile          |-> [i \in 1..Len(j.pile) |-> TupleOfCard(j.pile[i])],
      current       |-> j.current,
      direction     |-> 1,
      current_color |-> j.current_color,
      started       |-> j.started,
      last_active   |-> fromisoformat(j.last_active) ]

\* one entry of new_games in load_games
DeserializeGame(j) ==
    [ players       |-> j.players,
      hands         |-> [u \in {IntOf(k) : k \in DOMAIN j.hands} |->
                            [i \in 1..Len(j.hands[StrOf(u)]) |-> TupleOfCard(j.hands[StrOf(u)][i])]],
      deck          |-> [i \in 1..Len(j.deck) |-> TupleOfCard(j.deck[i])],
      pile          |-> [i \in 1..Len(j.pile) |-> TupleOfCard(j.pile[i])],
      current       |-> j.current,
      direction     |-> j.direction,
      current_color |-> j.current_color,
      started       |-> j.started,
      last_active   |-> fromisoformat(j.last_active) ]

\* save_games: the new content of uno_games.json, given GAMES and the old content
save_games(G, file) ==
    IF DOMAIN G = {} THEN file
    ELSE File([k \in {StrOf(c) : c \in DOMAIN G} |-> SerializeGame(G[IntOf(k)])])

\* load_games: the new value of GAMES, given the file and the old GAMES
load_games(file, G) ==
    IF ~file.exists THEN G
    ELSE [c \in {IntOf(k) : k \in DOMAIN file.content} |-> DeserializeGame(file.content[StrOf(c)])]

ExpiryHours == 24

\* a faulty sweep that also removes a session last active exactly
\* ExpiryHours ago
cleanup_old_games_from_24(G, file, t) ==
    LET to_remove == {c \in DOMAIN G : t - G[c].last_active >= ExpiryHours}
        G2 == [c \in (DOMAIN G) \ to_remove |-> G[c]]
    IN  [ GAMES |-> G2,
          disk  |-> IF to_remove # {} THEN save_games(G2, file) ELSE file ]

\* a faulty sweep that removes one expired session per run
cleanup_old_games_one(G, file, t) ==
    LET expired == {c \in DOMAIN G : t - G[c].last_active > ExpiryHours}
        to_remove == {c \in expired : \A d \in expired : c <= d}
        G2 == [c \in (DOMAIN G) \ to_remove |-> G[c]]
    IN  [ GAMES |-> G2,
          disk  |-> IF to_remove # {} THEN save_games(G2, file) ELSE file ]

\* cleanup_old_games at time t: the new GAMES and the new file content
cleanup_old_games(G, file, t) ==
    LET to_remove == {c \in DOMAIN G : t - G[c].last_active > ExpiryHours}
        G2 == [c \in (DOMAIN G) \ to_remove |-> G[c]]
    IN  [ GAMES |-> G2,
          disk  |-> IF to_remove # {} THEN save_games(G2, file) ELSE file ]

\* initialize_games at module load, when GAMES is the empty dict
initialize_games(file, t) == cleanup_old_games(load_games(file, EmptyDict), file, t)


-----------------------------------------------------------------------------
(* What a handler leaves behind: the new GAMES, file contents, the messages *)
(* it sent, and the exception log_handler swallowed ("" when none).        *)

NoError == ""

Result(G, file, st, out, raised) ==
    [GAMES |-> G, disk |-> file, stats |-> st, out |-> out, raised |-> raised]

\* update.message.reply_text(text): a message into the chat of the command
Reply(text) == <<"chat", text>>

\* context.bot.send_message(chat_id=uid, text): a private message
Private(uid, text) == <<"private", uid, text>>

SPECIAL == [k \in SpecialKeys |->
    CASE k = "skip" -> "skip" [] k = "reverse" -> "reverse" [] k = "draw2" -> "+2"
      [] k = "wild" -> "wild" [] k = "wild4" -> "wild4"]

Digits == {ToString(n) : n \in 0..9}

\* the text shown for a card: f"{c} {v if v.isdigit() else SPECIAL[v]}"
Display(card) == <<card[1], IF card[2] \in Digits THEN card[2] ELSE SPECIAL[card[2]]>>

\* GAMES.get(cid) is None, or the game is not started
NotRunning(G, cid) == cid \notin DOMAIN G \/ ~G[cid].started

\* game["players"][game["current"]]: Python counts a negative index from the
\* end of the list; an index outside the list raises IndexError, which never
\* happens while advance_turn keeps the index in range (None stands for it)
CurrentPlayer(g) ==
    LET n == Len(g.players)
    IN  IF g.current \in 0..(n - 1) THEN g.players[g.current + 1]
        ELSE IF g.current \in (-n)..(-1) THEN g.players[n + g.current + 1]
        ELSE None

-----------------------------------------------------------------------------
(* uno_start, uno_join, uno_begin, uno_reset *)

NewGame(deck, t) ==
    [ players |-> <<>>, hands |-> EmptyDict, deck |-> deck, pile |-> <<>>,
      current |-> 0, direction |-> 1, current_color |-> None,
      started |-> FALSE, last_active |-> t ]

StartResult(G, file, st, cid, kind, t) ==
    LET G2 == DictSet(G, cid, NewGame(create_deck(kind), t))
    IN  Result(G2, save_games(G2, file), st, <<Reply(<<"New UNO game started!">>)>>, NoError)

\* a faulty uno_join without the check for a game in progress
JoinResultLate(G, file, st, cid, uid, t) ==
    IF cid \notin DOMAIN G
    THEN Result(G, file, st, <<Reply(<<"Start the game first with /uno_start.">>)>>, NoError)
    ELSE IF InList(uid, G[cid].players)
    THEN Result(G, file, st, <<Reply(<<"You are already in the game.">>)>>, NoError)
    ELSE LET g2 == [G[cid] EXCEPT !.players = Append(@, uid), !.last_active = t]
             G2 == [G EXCEPT ![cid] = g2]
         IN  Result(G2, save_games(G2, file), st,
                    <<Reply(<<"joined! Total:", uid, Len(g2.players)>>)>>, NoError)

\* a faulty uno_join without the check for a player who has joined already
JoinResultTwice(G, file, st, cid, uid, t) ==
    IF cid \notin DOMAIN G
    THEN Result(G, file, st, <<Reply(<<"Start the game first with /uno_start.">>)>>, NoError)
    ELSE IF G[cid].started
    THEN Result(G, file, st, <<Reply(<<"Game already started!">>)>>, NoError)
    ELSE LET g2 == [G[cid] EXCEPT !.players = Append(@, uid), !.last_active = t]
             G2 == [G EXCEPT ![cid] = g2]
         IN  Result(G2, save_games(G2, file), st,
                    <<Reply(<<"joined! Total:", uid, Len(g2.players)>>)>>, NoError)

JoinResult(G, file, st, cid, uid, t) ==
    IF cid \notin DOMAIN G
    THEN Result(G, file, st, <<Reply(<<"Start the game first with /uno_start.">>)>>, NoError)
    ELSE IF G[cid].started
    THEN Result(G, file, st, <<Reply(<<"Game already started!">>)>>, NoError)
    ELSE IF InList(uid, G[cid].players)
    THEN Result(G, file, st, <<Reply(<<"You are already in the game.">>)>>, NoError)
    ELSE LET g2 == [G[cid] EXCEPT !.players = Append(@, uid), !.last_active = t]
             G2 == [G EXCEPT ![cid] = g2]
         IN  Result(G2, save_games(G2, file), st,
                    <<Reply(<<"joined! Total:", uid, Len(g2.players)>>)>>, NoError)

HandSize == 7

\* the dealing loop of uno_begin from the i-th player on; a pop from an empty
\* deck raises IndexError after the cards popped so far have left the deck
RECURSIVE Deal(_, _)
Deal(g, i) ==
    IF i > Len(g.players) THEN [g |-> g, raised |-> NoError]
    ELSE IF Len(g.deck) < HandSize
    THEN [g |-> [g EXCEPT !.deck = <<>>], raised |-> "IndexError"]
    ELSE Deal([g EXCEPT !.hands = DictSet(@, g.players[i], PopMany(g.deck, HandSize)),
                        !.deck = AfterPops(@, HandSize)], i + 1)

\* a faulty uno_begin that takes the current colour from the card it flips,
\* a wild included
BeginResultFlipColor(G, file, st, cid, choice, t) ==
    IF cid \notin DOMAIN G
    THEN Result(G, file, st, <<Reply(<<"Start the game first with /uno_start.">>)>>, NoError)
    ELSE IF G[cid].started
    THEN Result(G, file, st, <<Reply(<<"Game already in progress.">>)>>, NoError)
    ELSE IF Len(G[cid].players) < 2
    THEN Result(G, file, st, <<Reply(<<"Need at least 2 players.">>)>>, NoError)
    ELSE LET dealt == Deal(G[cid], 1)
         IN  IF dealt.raised # NoError \/ Len(dealt.g.deck) = 0
             THEN Result([G EXCEPT ![cid] = dealt.g], file, st, <<>>, "IndexError")
             ELSE LET top == dealt.g.deck[Len(dealt.g.deck)]
                      g2 == [dealt.g EXCEPT
                                !.deck = AfterPops(@, 1),
                                !.pile = Append(@, top),
                                !.current_color = top[1],
                                !.started = TRUE,
                                !.last_active = t]
                      G2 == [G EXCEPT ![cid] = g2]
                  IN  Result(G2, save_games(G2, file), st,
                             <<Reply(<<"Game started!", "Top card:", Display(top),
                                       "Current color:", g2.current_color,
                                       "First player:", CurrentPlayer(g2)>>)>>, NoError)

\* a faulty uno_begin that applies the effect of the card it flips
BeginResultFlipEffect(G, file, st, cid, choice, t) ==
    IF cid \notin DOMAIN G
    THEN Result(G, file, st, <<Reply(<<"Start the game first with /uno_start.">>)>>, NoError)
    ELSE IF G[cid].started
    THEN Result(G, file, st, <<Reply(<<"Game already in progress.">>)>>, NoError)
    ELSE IF Len(G[cid].players) < 2
    THEN Result(G, file, st, <<Reply(<<"Need at least 2 players.">>)>>, NoError)
    ELSE LET dealt == Deal(G[cid], 1)
         IN  IF dealt.raised # NoError \/ Len(dealt.g.deck) = 0
             THEN Result([G EXCEPT ![cid] = dealt.g], file, st, <<>>, "IndexError")
             ELSE LET top == dealt.g.deck[Len(dealt.g.deck)]
                      g1 == [dealt.g EXCEPT
                                !.deck = AfterPops(@, 1),
                                !.pile = Append(@, top),
                                !.current_color = IF top[1] = "wild" THEN choice ELSE top[1],
                                !.started = TRUE,
                                !.last_active = t]
                      g2 == IF top[2] \in Digits THEN g1
                            ELSE [g1 EXCEPT !.current = (@ + 1) % Len(g1.players)]
                      G2 == [G EXCEPT ![cid] = g2]
                  IN  Result(G2, save_games(G2, file), st,
                             <<Reply(<<"Game started!", "Top card:", Display(top),
                                       "Current color:", g2.current_color,
                                       "First player:", CurrentPlayer(g2)>>)>>, NoError)

\* a faulty uno_begin without the check for a game in progress
BeginResultAgain(G, file, st, cid, choice, t) ==
    IF cid \notin DOMAIN G
    THEN Result(G, file, st, <<Reply(<<"Start the game first with /uno_start.">>)>>, NoError)
    ELSE IF Len(G[cid].players) < 2
    THEN Result(G, file, st, <<Reply(<<"Need at least 2 players.">>)>>, NoError)
    ELSE LET dealt == Deal(G[cid], 1)
         IN  IF dealt.raised # NoError \/ Len(dealt.g.deck) = 0
             THEN Result([G EXCEPT ![cid] = dealt.g], file, st, <<>>, "IndexError")
             ELSE LET top == dealt.g.deck[Len(dealt.g.deck)]
                      g2 == [dealt.g EXCEPT
                                !.deck = AfterPops(@, 1),
                                !.pile = Append(@, top),
                                !.current_color = IF top[1] = "wild" THEN choice ELSE top[1],
                                !.started = TRUE,
                                !.last_active = t]
                      G2 == [G EXCEPT ![cid] = g2]
                  IN  Result(G2, save_games(G2, file), st,
                             <<Reply(<<"Game started!", "Top card:", Display(top),
                                       "Current color:", g2.current_color,
                                       "First player:", CurrentPlayer(g2)>>)>>, NoError)

\* choice is the colour random.choice(COLORS) returns
BeginResult(G, file, st, cid, choice, t) ==
    IF cid \notin DOMAIN G
    THEN Result(G, file, st, <<Reply(<<"Start the game first with /uno_start.">>)>>, NoError)
    ELSE IF G[cid].started
    THEN Result(G, file, st, <<Reply(<<"Game already in progress.">>)>>, NoError)
    ELSE IF Len(G[cid].players) < 2
    THEN Result(G, file, st, <<Reply(<<"Need at least 2 players.">>)>>, NoError)
    ELSE LET dealt == Deal(G[cid], 1)
         IN  IF dealt.raised # NoError \/ Len(dealt.g.deck) = 0
             THEN Result([G EXCEPT ![cid] = dealt.g], file, st, <<>>, "IndexError")
             ELSE LET top == dealt.g.deck[Len(dealt.g.deck)]
                      g2 == [dealt.g EXCEPT
                                !.deck = AfterPops(@, 1),
                                !.pile = Append(@, top),
                                !.current_color = IF top[1] = "wild" THEN choice ELSE top[1],
                                !.started = TRUE,
                                !.last_active = t]
                      G2 == [G EXCEPT ![cid] = g2]
                  IN  Result(G2, save_games(G2, file), st,
                             <<Reply(<<"Game started!", "Top card:", Display(top),
                                       "Current color:", g2.current_color,
                                       "First player:", CurrentPlayer(g2)>>)>>, NoError)

\* a faulty uno_reset that clears GAMES, the sessions of other chats included
ResetResultAll(G, file, st, cid) ==
    IF cid \in DOMAIN G
    THEN LET G2 == EmptyDict
         IN  Result(G2, save_games(G2, file), st, <<Reply(<<"UNO game reset.">>)>>, NoError)
    ELSE Result(G, file, st, <<Reply(<<"No active game to reset.">>)>>, NoError)

ResetResult(G, file, st, cid) ==
    IF cid \in DOMAIN G
    THEN LET G2 == DictDel(G, cid)
         IN  Result(G2, save_games(G2, file), st, <<Reply(<<"UNO game reset.">>)>>, NoError)
    ELSE Result(G, file, st, <<Reply(<<"No active game to reset.">>)>>, NoError)


-----------------------------------------------------------------------------
(* uno_status, uno_hand *)

\* a faulty sanity check that reads the file again on every call
ensure_games_reloaded(G, file) == load_games(file, G)

\* ensure_games_loaded: GAMES is bound to a dict when the module is loaded and
\* load_games binds it to dicts only, so isinstance(GAMES, dict) holds and
\* GAMES stays as it is
ensure_games_loaded(G, file) == G

StatusResult(G0, file, st, cid) ==
    LET G == ensure_games_loaded(G0, file)
    IN
    IF cid \notin DOMAIN G
    THEN Result(G, file, st, <<Reply(<<"No active game in this chat.">>)>>, NoError)
    ELSE LET g == G[cid]
             head == <<"Players:", Len(g.players), "Started:", g.started>>
             turn == IF g.started
                     THEN <<"Current turn:", CurrentPlayer(g), "Current color:", g.current_color>>
                     ELSE <<>>
             top  == IF g.started /\ Len(g.pile) > 0
                     THEN <<"Top card:", Display(g.pile[Len(g.pile)])>>
                     ELSE <<>>
         IN  Result(G, file, st, <<Reply(head \o turn \o top)>>, NoError)

HandResult(G, file, st, cid, uid, t) ==
    IF NotRunning(G, cid)
    THEN Result(G, file, st, <<Reply(<<"The game is not running.">>)>>, NoError)
    ELSE IF uid \notin DOMAIN G[cid].hands \/ Len(G[cid].hands[uid]) = 0
    THEN Result(G, file, st, <<Reply(<<"You have no cards.">>)>>, NoError)
    ELSE LET hand == G[cid].hands[uid]
             G2 == [G EXCEPT ![cid].last_active = t]
         IN  Result(G2, save_games(G2, file), st,
                    <<Private(uid, <<"Your cards:">> \o [i \in 1..Len(hand) |-> Display(hand[i])])>>,
                    NoError)

-----------------------------------------------------------------------------
(* uno_play *)

\* lines 412-429: what the arguments name
\* the words of /uno_play as a user may type them, each with its lower case:
\* the upper-case spelling at the odd places, the capitalised at the even
Typed == <<
    <<"RED", "red">>, <<"Red", "red">>, <<"GREEN", "green">>, <<"Green", "green">>,
    <<"BLUE", "blue">>, <<"Blue", "blue">>, <<"YELLOW", "yellow">>, <<"Yellow", "yellow">>,
    <<"PINK", "pink">>, <<"Pink", "pink">>,
    <<"WILD", "wild">>, <<"Wild", "wild">>, <<"WILD4", "wild4">>, <<"Wild4", "wild4">>,
    <<"SKIP", "skip">>, <<"Skip", "skip">>, <<"REVERSE", "reverse">>,
    <<"Reverse", "reverse">>, <<"DRAW2", "draw2">>, <<"Draw2", "draw2">> >>

\* str.lower(): a word of Typed becomes its lower case, any other of the
\* strings used here (lower-case words, digits) is left as it is
lower(s) ==
    LET hits == {i \in 1..Len(Typed) : Typed[i][1] = s}
    IN  IF hits = {} THEN s ELSE Typed[CHOOSE i \in hits : TRUE][2]

\* str.upper() of a lower-case word; a digit is left as it is
upper(s) ==
    LET hits == {i \in 1..Len(Typed) : i % 2 = 1 /\ Typed[i][2] = s}
    IN  IF hits = {} THEN s ELSE Typed[CHOOSE i \in hits : TRUE][1]

\* line 412: args = [arg.lower() for arg in context.args]
LowerArgs(typed) == [i \in 1..Len(typed) |-> lower(typed[i])]

\* lines 413-429: the lower-cased arguments name a card, or do not
ReadArgs(args) ==
    IF Len(args) = 0
    THEN [kind |-> "usage", card |-> <<>>, chosen_color |-> None]
    ELSE IF args[1] \in {"wild", "wild4"}
    THEN IF Len(args) < 2 \/ args[2] \notin ColorSet
         THEN [kind |-> "choose", card |-> <<>>, chosen_color |-> None]
         ELSE [kind |-> "card", card |-> <<"wild", args[1]>>, chosen_color |-> args[2]]
    ELSE IF Len(args) < 2
    THEN [kind |-> "IndexError", card |-> <<>>, chosen_color |-> None]
    ELSE [kind |-> "card", card |-> <<args[1], args[2]>>, chosen_color |-> None]

\* lines 412-429: the arguments are lower-cased, then read
ParseArgs(typed) == ReadArgs(LowerArgs(typed))

\* a faulty check that forgets the match by value
IsInvalidCardNoValue(card, top_color, top_value) ==
    card[1] # "wild" /\ card[1] # top_color

\* a faulty check that lets any card go on a wild
IsInvalidCardOnWild(card, top_color, top_value) ==
    /\ card[1] # "wild" /\ card[1] # top_color /\ card[2] # top_value
    /\ top_value \notin {"wild", "wild4"}

\* line 438: the card matches neither as a wild, nor by colour, nor by value
IsInvalidCard(card, top_color, top_value) ==
    card[1] # "wild" /\ card[1] # top_color /\ card[2] # top_value

\* a faulty play that always takes the colour from the card, a wild included
PlayCardOwnColor(g, uid, card, chosen_color, t) ==
    [g EXCEPT !.hands[uid] = ListRemove(@, card),
              !.pile = Append(@, card),
              !.current_color = card[1],
              !.last_active = t]

\* lines 442-445
PlayCard(g, uid, card, chosen_color, t) ==
    [g EXCEPT !.hands[uid] = ListRemove(@, card),
              !.pile = Append(@, card),
              !.current_color = IF card[1] = "wild" THEN chosen_color ELSE card[1],
              !.last_active = t]

\* lines 463, 473: the number of cards the next player draws for the card
PenaltyOf(card) == IF card[2] = "draw2" THEN 2 ELSE IF card[2] = "wild4" THEN 4 ELSE 0

\* the turn has been advanced and the handler awaits nothing for it
Moved(g) == [g |-> g, raised |-> NoError, at |-> "none"]

\* lines 461-464 and 471-474: the turn goes to the next player, who draws n
\* cards; the pop of an empty deck raises.  The handler then awaits the
\* announcement of the penalty (lines 465-466, 475-476).
Penalty(g, n) ==
    LET ga == advance_turn(g)
        nxt == CurrentPlayer(ga)
    IN  IF Len(ga.deck) < n
        THEN [g |-> [ga EXCEPT !.deck = <<>>], raised |-> "IndexError", at |-> "none"]
        ELSE [g |-> [ga EXCEPT !.deck = AfterPops(@, n),
                               !.hands[nxt] = @ \o PopMany(ga.deck, n)],
              raised |-> NoError, at |-> "penalty"]

\* lines 451-481, up to the await of a penalty: the effect of the card just
\* played
ApplyEffect(g, card) ==
    CASE card[2] = "skip" -> Moved(advance_turn(advance_turn(g)))
      [] card[2] = "reverse" ->
            LET gr == [g EXCEPT !.direction = -1 * @]
            IN  Moved(IF Len(gr.players) = 2 THEN advance_turn(advance_turn(gr))
                      ELSE advance_turn(gr))
      [] card[2] = "draw2" -> Penalty(g, 2)
      [] card[2] = "wild4" -> Penalty(g, 4)
      [] OTHER -> Moved(advance_turn(g))

\* a faulty record that starts the ledger of the chat afresh
RecordWinAfresh(st, c, u) == DictSet(st, c, <<<<u, 1>>>>)

\* lines 486-489: stats.setdefault(str(cid), {}) and the increment
RecordWin(st, c, u) ==
    LET cs == IF c \in DOMAIN st THEN st[c] ELSE <<>>
        cs2 == IF \E i \in 1..Len(cs) : cs[i][1] = u
               THEN [i \in 1..Len(cs) |-> IF cs[i][1] = u THEN <<u, cs[i][2] + 1>> ELSE cs[i]]
               ELSE Append(cs, <<u, 1>>)
    IN  DictSet(st, c, cs2)

-----------------------------------------------------------------------------
(* uno_play and uno_draw from one await to the next.  Between two awaits a   *)
(* handler runs without interruption; at an await with a mutation before it *)
(* and one after it the coroutine is suspended.  A suspended handler holds  *)
(* the game dict it read from GAMES when it was called (the local game; its *)
(* local hand is a list of that dict) and goes on with that object, while   *)
(* save_games, load_stats and del GAMES[cid] work on GAMES and the files as *)
(* they are when the await returns.                                         *)

\* what the handler has done when it is suspended or has ended: GAMES and the
\* files, the game dict g it holds, the messages sent, the exception raised,
\* the await it is suspended at ("none" when it has ended) and the message
\* that await sends
Seg(G, file, st, g, out, raised, at, msg) ==
    [GAMES |-> G, disk |-> file, stats |-> st, g |-> g, out |-> out,
     raised |-> raised, at |-> at, msg |-> msg]

\* the handler has ended
Ended(G, file, st, g, out, raised) == Seg(G, file, st, g, out, raised, "none", <<>>)

\* the game dict the suspended call h holds: GAMES[h.cid] as long as that is
\* the object the call read (h.ref = 0), the object heap[h.ref] once
\* GAMES[h.cid] was bound anew or deleted
Holds(h, G, heap) == IF h.ref = 0 THEN G[h.cid] ELSE heap[h.ref]

\* GAMES after the call h has changed the game dict it holds to g
WithObj(h, G, g) == IF h.ref = 0 THEN [G EXCEPT ![h.cid] = g] ELSE G

\* the dicts out of GAMES after the call h has changed the one it holds to g
HeapWith(h, heap, g) == IF h.ref = 0 THEN heap ELSE [heap EXCEPT ![h.ref] = g]

\* lines 403-449: uno_play from its call to the reply that shows the card
\* played; a play that is refused ends at its reply
PlayCall(G, file, st, cid, uid, args, t) ==
    IF NotRunning(G, cid)
    THEN Ended(G, file, st, <<>>, <<Reply(<<"The game is not running.">>)>>, NoError)
    ELSE IF CurrentPlayer(G[cid]) # uid
    THEN Ended(G, file, st, <<>>, <<Reply(<<"It's not your turn.">>)>>, NoError)
    ELSE LET p == ParseArgs(args)
             g == G[cid]
         IN
         IF p.kind = "usage"
         THEN Ended(G, file, st, <<>>, <<Reply(<<"Usage:">>)>>, NoError)
         ELSE IF p.kind = "choose"
         THEN Ended(G, file, st, <<>>,
                    <<Reply(<<"Choose a color: red/green/blue/yellow">>)>>, NoError)
         ELSE IF p.kind = "IndexError"
         THEN Ended(G, file, st, <<>>, <<>>, "IndexError")
         ELSE IF uid \notin DOMAIN g.hands \/ ~InList(p.card, g.hands[uid])
         THEN Ended(G, file, st, <<>>, <<Reply(<<"You don't have that card.">>)>>, NoError)
         ELSE IF IsInvalidCard(p.card, g.current_color, g.pile[Len(g.pile)][2])
         THEN Ended(G, file, st, <<>>,
                    <<Reply(<<"Invalid card: does not match color or value.">>)>>, NoError)
         ELSE
         LET g1 == PlayCard(g, uid, p.card, p.chosen_color, t)
         IN  Seg([G EXCEPT ![cid] = g1], file, st, g1, <<>>, NoError, "played",
                 Reply(<<uid, "played", Display(p.card), "Current color:", g1.current_color>>))

\* lines 483-497: a player without cards has won, which is announced first;
\* otherwise the sessions are saved and the next player is named
AfterEffect(G, file, st, h, g, out) ==
    IF Len(g.hands[h.uid]) = 0
    THEN Seg(G, file, st, g, out, NoError, "won", Reply(<<h.uid, "has won the UNO game!">>))
    ELSE Ended(G, save_games(G, file), st, g,
               Append(out, Reply(<<"Next turn:", CurrentPlayer(g)>>)), NoError)

\* lines 486-491: the win is recorded in the stats file as it is now, and
\* GAMES[cid] is deleted (a KeyError when GAMES has no such session any more)
RecordAndDelete(G, file, st, h, g, out) ==
    LET st2 == RecordWin(st, StrOf(h.cid), StrOf(h.uid))
    IN  IF h.cid \notin DOMAIN G
        THEN Ended(G, file, st2, g, out, "KeyError")
        ELSE LET G3 == DictDel(G, h.cid)
             IN  Ended(G3, save_games(G3, file), st2, g, out, NoError)

\* lines 449-497: uno_play from the await the call h is suspended at, which
\* has sent its message, to the next such await or to the end; g is the game
\* dict the call holds
PlayAfter(G, file, st, h, g) ==
    LET card == ParseArgs(h.args).card
        out == Append(h.out, h.msg)
    IN  CASE h.at = "played" ->
               LET e == ApplyEffect(g, card)
                   G2 == WithObj(h, G, e.g)
               IN  IF e.raised # NoError
                   THEN Ended(G2, file, st, e.g, out, e.raised)
                   ELSE IF e.at = "penalty"
                   THEN Seg(G2, file, st, e.g, out, NoError, "penalty",
                            Reply(<<CurrentPlayer(e.g), "draws", PenaltyOf(card),
                                    "cards and skips turn">>))
                   ELSE AfterEffect(G2, file, st, h, e.g, out)
          [] h.at = "penalty" ->
               LET g2 == advance_turn(g)
               IN  AfterEffect(WithObj(h, G, g2), file, st, h, g2, out)
          [] h.at = "won" -> RecordAndDelete(G, file, st, h, g, out)

-----------------------------------------------------------------------------
(* uno_draw *)

\* a faulty rebuild that turns the whole pile into the deck, its top card
\* included
ReshuffleWholePile(g, kind) ==
    IF Len(g.deck) = 0
    THEN [g EXCEPT !.deck = Shuffle(g.pile, kind), !.pile = <<>>]
    ELSE g

\* a faulty rebuild that copies the pile into the deck and leaves it in place
ReshuffleKeepsPile(g, kind) ==
    IF Len(g.deck) = 0
    THEN [g EXCEPT !.deck = Shuffle(SubSeq(g.pile, 1, Len(g.pile) - 1), kind)]
    ELSE g

\* lines 521-525: the pile below its top card becomes the deck, shuffled
Reshuffle(g, kind) ==
    IF Len(g.deck) = 0
    THEN [g EXCEPT !.deck = Shuffle(SubSeq(g.pile, 1, Len(g.pile) - 1), kind),
                   !.pile = <<g.pile[Len(g.pile)]>>]
    ELSE g

\* a faulty draw that copies the top card of the deck and leaves it there
DrawCardKeepsDeck(g, uid, t) ==
    [g EXCEPT !.hands[uid] = Append(@, g.deck[Len(g.deck)]),
              !.last_active = t]

\* lines 528-530
DrawCard(g, uid, t) ==
    [g EXCEPT !.hands[uid] = Append(@, g.deck[Len(g.deck)]),
              !.deck = AfterPops(@, 1),
              !.last_active = t]

\* a faulty uno_draw whose turn check lets every player holding cards draw
DrawCallAnyHolder(G, file, st, cid, uid, kind, t) ==
    IF NotRunning(G, cid)
    THEN Ended(G, file, st, <<>>, <<Reply(<<"The game is not running.">>)>>, NoError)
    ELSE IF CurrentPlayer(G[cid]) # uid /\ uid \notin DOMAIN G[cid].hands
    THEN Ended(G, file, st, <<>>, <<Reply(<<"It's not your turn.">>)>>, NoError)
    ELSE LET g1 == Reshuffle(G[cid], kind)
         IN
         IF Len(g1.deck) = 0
         THEN Ended([G EXCEPT ![cid] = g1], file, st, g1, <<>>, "IndexError")
         ELSE
         LET card == g1.deck[Len(g1.deck)]
             g2 == DrawCard(g1, uid, t)
             G2 == [G EXCEPT ![cid] = g2]
         IN  Seg(G2, save_games(G2, file), st, g2, <<>>, NoError, "drew",
                 Reply(<<"You drew:", Display(card), "Your turn is skipped.">>))

\* lines 511-533: uno_draw from its call to the reply that shows the card
\* drawn, the sessions saved before it; a draw that is refused ends at its
\* reply, a draw that finds no card ends with the IndexError of line 528
DrawCall(G, file, st, cid, uid, kind, t) ==
    IF NotRunning(G, cid)
    THEN Ended(G, file, st, <<>>, <<Reply(<<"The game is not running.">>)>>, NoError)
    ELSE IF CurrentPlayer(G[cid]) # uid
    THEN Ended(G, file, st, <<>>, <<Reply(<<"It's not your turn.">>)>>, NoError)
    ELSE LET g1 == Reshuffle(G[cid], kind)
         IN
         IF Len(g1.deck) = 0
         THEN Ended([G EXCEPT ![cid] = g1], file, st, g1, <<>>, "IndexError")
         ELSE
         LET card == g1.deck[Len(g1.deck)]
             g2 == DrawCard(g1, uid, t)
             G2 == [G EXCEPT ![cid] = g2]
         IN  Seg(G2, save_games(G2, file), st, g2, <<>>, NoError, "drew",
                 Reply(<<"You drew:", Display(card), "Your turn is skipped.">>))

\* lines 533-539: uno_draw from the await the call h is suspended at, which
\* has sent its message, to the end: the turn advances in the game dict g
\* the call holds and the next player is named; nothing is saved
DrawAfter(G, file, st, h, g) ==
    LET g3 == advance_turn(g)
    IN  Ended(WithObj(h, G, g3), file, st, g3,
              h.out \o <<h.msg, Reply(<<"Next turn:", CurrentPlayer(g3)>>)>>, NoError)

\* a handler called for the update of user uid in chat cid and suspended as
\* the result r says; found is what it found when it was called
Call(op, cid, uid, args, r, found) ==
    [op |-> op, cid |-> cid, uid |-> uid, args |-> args, at |-> r.at, msg |-> r.msg,
     out |-> r.out, ref |-> 0, found |-> found]

\* lines 504-544: uno_draw from its call to its end when every await returns
DrawResult(G, file, st, cid, uid, kind, t) ==
    LET r == DrawCall(G, file, st, cid, uid, kind, t)
    IN  IF r.at = "none" THEN r
        ELSE DrawAfter(r.GAMES, r.disk, r.stats, Call("uno_draw", cid, uid, <<>>, r, <<>>), r.g)

-----------------------------------------------------------------------------
(* uno_top10 *)

\* top = sorted(...)[:10]
TopN == 10

\* a faulty insertion that puts an entry behind the entries with as many wins
InsertAfterTies(x, s) ==
    LET k == Cardinality({i \in 1..Len(s) : s[i][2] >= x[2]})
    IN  SubSeq(s, 1, k) \o <<x>> \o SubSeq(s, k + 1, Len(s))

\* the entry x, which the ledger holds before the entries of s, put into s,
\* sorted by wins, highest first: behind the entries with more wins
InsertByWins(x, s) ==
    LET k == Cardinality({i \in 1..Len(s) : s[i][2] > x[2]})
    IN  SubSeq(s, 1, k) \o <<x>> \o SubSeq(s, k + 1, Len(s))

\* sorted(stats.items(), key=lambda x: x[1], reverse=True): Python's sort is
\* stable, with reverse=True as well
RECURSIVE SortedByWins(_)
SortedByWins(cs) ==
    IF cs = <<>> THEN <<>> ELSE InsertByWins(Head(cs), SortedByWins(Tail(cs)))

\* uno_top10: the ledger of the chat is read from the stats file; a name is
\* shown for the uid of an entry
Top10Result(G, file, st, cid) ==
    LET cs == IF StrOf(cid) \in DOMAIN st THEN st[StrOf(cid)] ELSE <<>>
        sorted == SortedByWins(cs)
        top == SubSeq(sorted, 1, IF Len(sorted) < TopN THEN Len(sorted) ELSE TopN)
    IN  IF cs = <<>>
        THEN Result(G, file, st, <<Reply(<<"No wins yet.">>)>>, NoError)
        ELSE Result(G, file, st, <<Reply(<<"Top 10 UNO Winners:", top>>)>>, NoError)

-----------------------------------------------------------------------------
(* A game file left by an earlier run of the bot.  The game of chat 1 in   *)
(* it is the one reached by uno_start, two uno_join (users 1 and 2),       *)
(* uno_begin and 167 accepted commands (66 uno_draw, 101 uno_play) that    *)
(* put RecoveredPile on the pile in this order; the last command was a     *)
(* play, so the file written by its save_games holds this very game.       *)
RecoveredPile == <<
    <<"yellow", "1">>, <<"yellow", "0">>, <<"yellow", "1">>, <<"yellow", "2">>,
    <<"yellow", "2">>, <<"yellow", "3">>, <<"yellow", "3">>, <<"yellow", "4">>,
    <<"yellow", "4">>, <<"yellow", "5">>, <<"yellow", "5">>, <<"yellow", "6">>,
    <<"yellow", "6">>, <<"yellow", "7">>, <<"yellow", "7">>, <<"yellow", "8">>,
    <<"yellow", "8">>, <<"yellow", "9">>, <<"yellow", "skip">>, <<"yellow", "skip">>,
    <<"yellow", "reverse">>, <<"yellow", "reverse">>, <<"yellow", "draw2">>, <<"yellow", "draw2">>,
    <<"yellow", "9">>, <<"blue", "9">>, <<"wild", "wild">>, <<"blue", "0">>,
    <<"blue", "1">>, <<"wild", "wild">>, <<"blue", "1">>, <<"blue", "2">>,
    <<"wild", "wild4">>, <<"blue", "2">>, <<"wild", "wild4">>, <<"blue", "3">>,
    <<"blue", "4">>, <<"blue", "4">>, <<"blue", "5">>, <<"blue", "5">>,
    <<"blue", "6">>, <<"blue", "6">>, <<"blue", "7">>, <<"blue", "8">>,
    <<"blue", "9">>, <<"wild", "wild4">>, <<"blue", "skip">>, <<"blue", "skip">>,
    <<"blue", "reverse">>, <<"blue", "reverse">>, <<"blue", "draw2">>, <<"blue", "draw2">>,
    <<"blue", "8">>, <<"green", "8">>, <<"green", "1">>, <<"green", "1">>,
    <<"green", "2">>, <<"green", "2">>, <<"green", "3">>, <<"green", "3">>,
    <<"green", "4">>, <<"green", "4">>, <<"green", "5">>, <<"green", "5">>,
    <<"green", "6">>, <<"green", "6">>, <<"green", "7">>, <<"green", "7">>,
    <<"green", "8">>, <<"green", "9">>, <<"green", "9">>, <<"wild", "wild">>,
    <<"green", "skip">>, <<"green", "skip">>, <<"green", "reverse">>, <<"green", "reverse">>,
    <<"green", "draw2">>, <<"green", "draw2">>, <<"green", "0">>, <<"red", "0">>,
    <<"red", "1">>, <<"red", "1">>, <<"red", "2">>, <<"red", "2">>,
    <<"red", "3">>, <<"red", "3">>, <<"red", "4">>, <<"red", "4">>,
    <<"red", "5">>, <<"red", "6">>, <<"wild", "wild">>, <<"red", "6">>,
    <<"red", "7">>, <<"red", "8">>, <<"red", "8">>, <<"red", "9">>,
    <<"red", "9">>, <<"red", "skip">>, <<"red", "skip">>, <<"red", "reverse">>,
    <<"red", "draw2">>, <<"red", "5">>
  >>

RecoveredGame ==
    [ players |-> <<1, 2>>,
      hands |-> [u \in {1, 2} |->
                    IF u = 1 THEN << <<"red", "reverse">>, <<"red", "7">> >>
                    ELSE << <<"red", "draw2">>, <<"wild", "wild4">>, <<"blue", "7">> >>],
      deck |-> << <<"blue", "3">> >>,
      pile |-> RecoveredPile,
      current |-> 0, direction |-> -1, current_color |-> "red",
      started |-> TRUE, last_active |-> 0 ]

\* chat 2 in that file: after uno_start and uno_join of users 1, 2 and 3
JoinedGame ==
    [ players |-> <<1, 2, 3>>, hands |-> [k \in {} |-> k], deck |-> OrderedDeck,
      pile |-> <<>>, current |-> 0, direction |-> 1, current_color |-> None,
      started |-> FALSE, last_active |-> 1 ]

RecoveredFile ==
    save_games([c \in {1, 2} |-> IF c = 1 THEN RecoveredGame ELSE JoinedGame], NoFile)

\* a file written by uno_join: chat 1 after uno_start and uno_join of the
\* users 1 to MaxPlayers (uno_join sets no limit to the number of players)
CrowdGame ==
    [ players |-> [i \in 1..MaxPlayers |-> i], hands |-> [k \in {} |-> k],
      deck |-> OrderedDeck, pile |-> <<>>, current |-> 0, direction |-> 1,
      current_color |-> None, started |-> FALSE, last_active |-> 1 ]

CrowdFile == save_games([c \in {1} |-> CrowdGame], NoFile)

\* the file when the game of chat 1 is the only session
SoloFile == save_games([c \in {1} |-> RecoveredGame], NoFile)

\* the list with its i-th and j-th elements exchanged
Swap(lst, i, j) ==
    [k \in 1..Len(lst) |-> IF k = i THEN lst[j] ELSE IF k = j THEN lst[i] ELSE lst[k]]

\* a deck as random.shuffle can leave it: dealt to three players, the first
\* gets red 7 to 9, a skip and a reverse, the second red 4 to 7, the third
\* red 1 to 3 and the other red reverse, and the card flipped is a wild4
ShuffledDeck ==
    LET d == Rotate(OrderedDeck, 3 * HandSize)
    IN  Swap(Swap(d, 1, Len(d)), 2, Len(d) - 3 * HandSize + 1)

\* a file written by uno_join: chat 1 after uno_start, whose shuffle left
\* ShuffledDeck, and uno_join of the users 1, 2 and 3
ShuffledGame ==
    [ players |-> <<1, 2, 3>>, hands |-> [k \in {} |-> k],
      deck |-> ShuffledDeck,
      pile |-> <<>>, current |-> 0, direction |-> 1, current_color |-> None,
      started |-> FALSE, last_active |-> 1 ]

ShuffledFile == save_games([c \in {1} |-> ShuffledGame], NoFile)

\* the largest number of players uno_begin can deal to and flip a card
LargestTable == (Len(OrderedDeck) - 1) \div HandSize

\* a file written by uno_join: chat 1 after uno_start, whose shuffle left the
\* deck in the order of create_deck, and uno_join of the users 1 to
\* LargestTable
FullTableGame ==
    [ players |-> [i \in 1..LargestTable |-> i], hands |-> [k \in {} |-> k],
      deck |-> OrderedDeck, pile |-> <<>>, current |-> 0, direction |-> 1,
      current_color |-> None, started |-> FALSE, last_active |-> 1 ]

FullTableFile == save_games([c \in {1} |-> FullTableGame], NoFile)

-----------------------------------------------------------------------------
(* The inputs the model explores *)

\* a stats file left by earlier games of chat 1: the first win was of user 2,
\* who has 1; user 1 has 2
PriorStats == [c \in {"1"} |-> << <<"2", 1>>, <<"1", 2>> >>]

\* The file and the time at which the process starts.  RecoveredFile was
\* written at time 1 or before: when the process starts at 1 + ExpiryHours
\* the game of chat 1 is older than ExpiryHours and the one of chat 2 is not.
\* A run of the model is shorter than an hour.  With them the stats file
\* load_stats reads: empty, or PriorStats.
Starts ==
    {<<NoFile, 1, EmptyDict>>, <<RecoveredFile, 1, EmptyDict>>,
     <<RecoveredFile, 1 + ExpiryHours, EmptyDict>>, <<CrowdFile, 1, EmptyDict>>,
     <<SoloFile, 1, PriorStats>>, <<ShuffledFile, 1, EmptyDict>>,
     <<FullTableFile, 1, EmptyDict>>}

\* the hours the process is down before it is started again: none, and so
\* long that a session last active when the process stopped is not expired
\* (ExpiryHours) while one last active an hour earlier is
Downtimes == {0, ExpiryHours}

\* the permutations random.shuffle is asked for: uno_draw shuffles only an
\* empty deck
DrawShuffles(G, cid) ==
    IF ~NotRunning(G, cid) /\ Len(G[cid].deck) = 0 THEN Shuffles ELSE {"id"}

\* the colours random.choice is asked for: uno_begin chooses only when the
\* card it flips is a wild
BeginChoices(G, cid) ==
    IF /\ cid \in DOMAIN G
       /\ Len(G[cid].deck) > HandSize * Len(G[cid].players)
       /\ G[cid].deck[Len(G[cid].deck) - HandSize * Len(G[cid].players)][1] = "wild"
    THEN ColorSet ELSE {COLORS[1]}

\* colours a player declares with a wild
DeclaredColors == {"red", "yellow"}

\* argument lists that name no card of the hand
OtherArgs == {<<>>, <<"wild">>, <<"wild4", "pink">>, <<"Wild", "PINK">>, <<"red">>, <<"green", "4">>}

HandOf(G, cid, uid) ==
    IF cid \in DOMAIN G /\ uid \in DOMAIN G[cid].hands THEN G[cid].hands[uid] ELSE <<>>

\* the coloured card on top of the pile: a second copy of it matches in
\* colour and rank, whether the player holds one or not
TopArgs(G, cid) ==
    LET pile == G[cid].pile
    IN  IF Len(pile) > 0 /\ pile[Len(pile)][1] # "wild" THEN {pile[Len(pile)]} ELSE {}

\* the first card of the hand, typed in upper case (a wild with the colour
\* yellow)
UpperArgs(hand) ==
    IF Len(hand) = 0 THEN {}
    ELSE IF hand[1][1] = "wild" THEN {<<upper(hand[1][2]), upper("yellow")>>}
    ELSE {<<upper(hand[1][1]), upper(hand[1][2])>>}

\* context.args of /uno_play: for the player whose turn it is every card of
\* the hand, the first of them in upper case as well, the card on top of the
\* pile, and OtherArgs; for anyone else a card of OtherArgs
PlayArgs(G, cid, uid) ==
    LET hand == HandOf(G, cid, uid)
        held == {hand[i] : i \in 1..Len(hand)}
    IN  IF NotRunning(G, cid) \/ CurrentPlayer(G[cid]) # uid
        THEN {<<"green", "4">>}
        ELSE {c \in held : c[1] # "wild"}
             \cup {<<c[2], col>> : c \in {h \in held : h[1] = "wild"}, col \in DeclaredColors}
             \cup UpperArgs(hand)
             \cup TopArgs(G, cid)
             \cup OtherArgs

-----------------------------------------------------------------------------
(* The state machine *)

\* the handler changed GAMES, the game file or the stats file
HasEffect(r) == <<r.GAMES, r.disk, r.stats>> # <<GAMES, disk, stats>>

Update(op, cid, uid, args, r) ==
    [op |-> op, cid |-> cid, uid |-> uid, args |-> args, out |-> r.out,
     raised |-> r.raised, effect |-> HasEffect(r)]

NoUpdate(op) ==
    [op |-> op, cid |-> 0, uid |-> 0, args |-> <<>>, out |-> <<>>,
     raised |-> NoError, effect |-> TRUE]

\* the handler of the update is suspended at an await, having sent out
Awaiting(cid, uid, args, out) ==
    [op |-> "await", cid |-> cid, uid |-> uid, args |-> args, out |-> out,
     raised |-> NoError, effect |-> TRUE]

\* GAMES and the files as they are
Here == [GAMES |-> GAMES, disk |-> disk, stats |-> stats]

\* no handler is suspended
NoCalls == [calls |-> {}, heap |-> <<>>]

\* The handler op has bound GAMES[cid] anew (uno_start, line 218) or deleted
\* it (lines 316, 490): the suspended calls that read their game dict from
\* GAMES[cid] go on holding that dict, which is G[cid], out of GAMES.
Detached(fl, op, cid, G, G2) ==
    LET lost == {h \in fl.calls : h.ref = 0 /\ h.cid = cid}
    IN  IF lost = {} \/ cid \notin DOMAIN G \/ ~(op = "uno_start" \/ cid \notin DOMAIN G2)
        THEN fl
        ELSE [calls |-> (fl.calls \ lost)
                           \cup {[h EXCEPT !.ref = Len(fl.heap) + 1] : h \in lost},
              heap |-> Append(fl.heap, G[cid])]

\* A handler has run to its end in one step: its result becomes the state.
\* An update without effect leaves GAMES and the files as they were, so every
\* state reachable after it is reachable without it: the model does not
\* continue from it.  (A restart after a downtime moves the clock and counts
\* as an effect.)
Handle(op, cid, uid, args, r) ==
    /\ GAMES' = r.GAMES
    /\ disk' = r.disk
    /\ stats' = r.stats
    /\ last' = Update(op, cid, uid, args, r)
    /\ steps' = IF HasEffect(r) THEN steps + 1 ELSE steps
    /\ inflight' = Detached(inflight, op, cid, GAMES, r.GAMES)
    /\ UNCHANGED now

Init ==
    /\ steps = 0
    /\ \E s \in Starts :
          /\ now = s[2]
          /\ stats = s[3]
          /\ GAMES = initialize_games(s[1], s[2]).GAMES
          /\ disk = initialize_games(s[1], s[2]).disk
    /\ last = NoUpdate("load")
    /\ inflight = NoCalls

\* the model handles another update
Ready == steps < MaxSteps /\ last.effect

\* an Application built with concurrent_updates(True)
concurrent_updates_on == TRUE

\* main builds the Application with ApplicationBuilder().token().defaults()
\* .build(): concurrent_updates keeps its default and the Application awaits
\* the handler of an update before it takes the next update
concurrent_updates == FALSE

\* the Application takes the next update from its queue
CanDispatch == Ready /\ (concurrent_updates \/ inflight.calls = {})

uno_start(cid, kind) ==
    /\ CanDispatch
    /\ Handle("uno_start", cid, 0, <<>>, StartResult(GAMES, disk, stats, cid, kind, now))

uno_join(cid, uid) ==
    /\ CanDispatch
    /\ Handle("uno_join", cid, uid, <<>>, JoinResult(GAMES, disk, stats, cid, uid, now))

uno_begin(cid, choice) ==
    /\ CanDispatch
    /\ Handle("uno_begin", cid, 0, <<>>, BeginResult(GAMES, disk, stats, cid, choice, now))

uno_reset(cid) ==
    /\ CanDispatch
    /\ Handle("uno_reset", cid, 0, <<>>, ResetResult(GAMES, disk, stats, cid))

uno_status(cid) ==
    /\ CanDispatch
    /\ Handle("uno_status", cid, 0, <<>>, StatusResult(GAMES, disk, stats, cid))

uno_hand(cid, uid) ==
    /\ CanDispatch
    /\ Handle("uno_hand", cid, uid, <<>>, HandResult(GAMES, disk, stats, cid, uid, now))

uno_top10(cid) ==
    /\ CanDispatch
    /\ Handle("uno_top10", cid, 0, <<>>, Top10Result(GAMES, disk, stats, cid))

\* the handler of an update for uno_play or uno_draw is called and has run as
\* r says: to its end, or to an await with a mutation before it, where it is
\* suspended
HandlerCall(op, cid, uid, args, r) ==
    /\ CanDispatch
    /\ IF r.at = "none"
       THEN Handle(op, cid, uid, args, r)
       ELSE /\ GAMES' = r.GAMES
            /\ disk' = r.disk
            /\ stats' = r.stats
            /\ inflight' = [inflight EXCEPT
                               !.calls = @ \cup {Call(op, cid, uid, args, r, Here)}]
            /\ last' = Awaiting(cid, uid, args, r.out)
            /\ steps' = steps + 1
            /\ UNCHANGED now

uno_play(cid, uid, args) ==
    HandlerCall("uno_play", cid, uid, args,
                PlayCall(GAMES, disk, stats, cid, uid, args, now))

uno_draw(cid, uid, kind) ==
    HandlerCall("uno_draw", cid, uid, <<>>,
                DrawCall(GAMES, disk, stats, cid, uid, kind, now))

\* uno_play or uno_draw from the await the call h is suspended at
HandlerAfter(G, file, st, h, g) ==
    IF h.op = "uno_play" THEN PlayAfter(G, file, st, h, g) ELSE DrawAfter(G, file, st, h, g)

\* the await of the suspended call h returns: the handler goes on to its next
\* await between mutations or to its end
await_returns(h) ==
    /\ h \in inflight.calls
    /\ LET r == HandlerAfter(GAMES, disk, stats, h, Holds(h, GAMES, inflight.heap))
           fl == [calls |-> inflight.calls \ {h}, heap |-> HeapWith(h, inflight.heap, r.g)]
       IN  /\ GAMES' = r.GAMES
           /\ disk' = r.disk
           /\ stats' = r.stats
           /\ IF r.at = "none"
              THEN /\ inflight' = Detached(fl, h.op, h.cid, GAMES, r.GAMES)
                   /\ last' = [op |-> h.op, cid |-> h.cid, uid |-> h.uid, args |-> h.args,
                               out |-> r.out, raised |-> r.raised,
                               effect |-> <<r.GAMES, r.disk, r.stats>>
                                             # <<h.found.GAMES, h.found.disk, h.found.stats>>]
              ELSE /\ inflight' = [fl EXCEPT !.calls = @ \cup
                                     {[h EXCEPT !.at = r.at, !.msg = r.msg, !.out = r.out]}]
                   /\ last' = Awaiting(h.cid, h.uid, h.args, r.out)
    /\ UNCHANGED <<now, steps>>

\* the await of the suspended call h raises (the request to Telegram fails):
\* the handler ends there and log_handler swallows the exception
await_raises(h) ==
    /\ h \in inflight.calls
    /\ inflight' = [inflight EXCEPT !.calls = @ \ {h}]
    /\ last' = [op |-> h.op, cid |-> h.cid, uid |-> h.uid, args |-> h.args,
                out |-> h.out, raised |-> "TelegramError", effect |-> Here # h.found]
    /\ UNCHANGED <<GAMES, disk, stats, now, steps>>

\* the process is restarted after being down for dt hours: the module is
\* loaded again, GAMES starts empty and initialize_games reads the clock; a
\* handler that was suspended is gone
Restart(dt) ==
    /\ Ready
    /\ now + dt <= MaxClock
    /\ LET r == initialize_games(disk, now + dt)
           res == Result(r.GAMES, r.disk, stats, <<>>, NoError)
       IN  /\ GAMES' = r.GAMES
           /\ disk' = r.disk
           /\ stats' = stats
           /\ last' = [Update("load", 0, 0, <<>>, res) EXCEPT !.effect = @ \/ dt > 0]
           /\ steps' = IF HasEffect(res) \/ dt > 0 THEN steps + 1 ELSE steps
    /\ now' = now + dt
    /\ inflight' = NoCalls

Next ==
    \/ \E cid \in Chats, kind \in Shuffles : uno_start(cid, kind)
    \/ \E cid \in Chats, uid \in Users : uno_join(cid, uid)
    \/ \E cid \in Chats : \E choice \in BeginChoices(GAMES, cid) : uno_begin(cid, choice)
    \/ \E cid \in Chats : uno_reset(cid)
    \/ \E cid \in Chats : uno_status(cid)
    \/ \E cid \in Chats, uid \in Users : uno_hand(cid, uid)
    \/ \E cid \in Chats : uno_top10(cid)
    \/ \E cid \in Chats, uid \in Users :
          \E args \in PlayArgs(GAMES, cid, uid) : uno_play(cid, uid, args)
    \/ \E cid \in Chats, uid \in Users :
          \E kind \in DrawShuffles(GAMES, cid) : uno_draw(cid, uid, kind)
    \/ \E h \in inflight.calls : await_returns(h)
    \/ \E h \in inflight.calls : await_raises(h)
    \/ \E dt \in Downtimes : Restart(dt)

Spec == Init /\ [][Next]_vars

-----------------------------------------------------------------------------
(* uno_top10 over the ledgers of chat 1 with up to MaxWinners players *)

MaxWinners == 11

WinCounts == {1, 2}

\* the ledger of n players with the wins w; its entries were created in the
\* order of the user ids, or against it
LedgerOf(n, w, order) ==
    [i \in 1..n |-> LET u == IF order = "up" THEN i ELSE n + 1 - i IN <<StrOf(u), w[u]>>]

InitTop ==
    /\ GAMES = EmptyDict
    /\ disk = NoFile
    /\ now = 1
    /\ steps = 0
    /\ last = NoUpdate("load")
    /\ inflight = NoCalls
    /\ \E n \in 0..MaxWinners, order \in {"up", "down"} :
          \E w \in [1..n -> WinCounts] : stats = [c \in {"1"} |-> LedgerOf(n, w, order)]

NextTop == \E cid \in Chats : uno_top10(cid)

SpecTop == InitTop /\ [][NextTop]_vars

-----------------------------------------------------------------------------
(* Vocabulary of the properties *)

\* number of occurrences of x in lst
Count(lst, x) == Cardinality({i \in 1..Len(lst) : lst[i] = x})

\* the two lists hold the same cards, each as many times
SameCards(a, b) ==
    /\ Len(a) = Len(b)
    /\ \A x \in {a[i] : i \in 1..Len(a)} : Count(a, x) = Count(b, x)

\* the hands of the players from the i-th on, one after the other
RECURSIVE HandsFrom(_, _)
HandsFrom(g, i) ==
    IF i > Len(g.players) THEN <<>>
    ELSE (IF g.players[i] \in DOMAIN g.hands THEN g.hands[g.players[i]] ELSE <<>>)
         \o HandsFrom(g, i + 1)

\* every card of a session: deck, pile and hands
AllCards(g) == g.deck \o g.pile \o HandsFrom(g, 1)

\* the sessions of GAMES that are started
Started == {cid \in DOMAIN GAMES : GAMES[cid].started}

\* what a restart of the process would recover from the file as it is now
Recovered == initialize_games(disk, now).GAMES

\* GAMES and the files as the handler that the step ends found them when it
\* was called: as they are before the step for a handler that runs in one
\* step, as its call found them for a handler that was suspended
Found == IF inflight.calls = {} THEN Here ELSE (CHOOSE h \in inflight.calls : TRUE).found

\* the handler that the step ends leaves GAMES and the files as it found them
LeftAsFound == <<GAMES', disk', stats'>> = <<Found.GAMES, Found.disk, Found.stats>>

\* no handler is suspended at an await
Quiet == inflight.calls = {}

\* the last update was handled by op without an exception and changed something
Succeeded(op) == last.op = op /\ last.raised = NoError /\ last.effect

-----------------------------------------------------------------------------
(* C1: card conservation *)

\* C1: in every reachable state of a started session the deck, the pile and
\* the hands together hold 108 cards, and these are exactly the cards of the
\* full deck, none duplicated and none lost.
CardConservation ==
    \A cid \in Started :
        /\ Len(AllCards(GAMES[cid])) = 108
        /\ SameCards(AllCards(GAMES[cid]), OrderedDeck)

-----------------------------------------------------------------------------
(* C2: turn validity *)

\* the index of the current player is within the list of players
TurnInRange ==
    \A cid \in Started :
        /\ GAMES[cid].current \in 0..(Len(GAMES[cid].players) - 1)
        /\ GAMES[cid].direction \in {1, -1}

\* a command moves the index by whole advancements: k times (current +
\* direction) mod the number of players, in the direction the step leaves;
\* a draw that got to its end advances exactly once.  (A restart reads the
\* index back from the file.)
TurnAdvances ==
    \A cid \in Started :
        (cid \in DOMAIN GAMES' /\ GAMES'[cid].started /\ last'.op # "load") =>
            LET g == GAMES[cid]
                h == GAMES'[cid]
                n == Len(g.players)
            IN  /\ \E k \in 0..2 : h.current = (g.current + k * h.direction) % n
                /\ (last'.op = "uno_draw" /\ last'.cid = cid /\ last'.raised = NoError
                       /\ last'.effect)
                      => h.current = (g.current + g.direction) % n

\* C2: in every reachable state of a started session, in either direction
\* and for any number of players, the index of the current player is in
\* [0, number of players), and every turn advancement sets it to
\* (index + direction) mod number of players.
TurnValidity == TurnInRange /\ [][TurnInRange' /\ TurnAdvances]_vars

\* a draw has moved the turn backwards from index 0 to the last player
TurnValidityWitness ==
    /\ Succeeded("uno_draw")
    /\ last.cid \in Started
    /\ GAMES[last.cid].direction = -1
    /\ GAMES[last.cid].current = Len(GAMES[last.cid].players) - 1


-----------------------------------------------------------------------------
(* C3, C4: the legality check of uno_play *)

\* the card the arguments of the step's /uno_play name
StepCard == ParseArgs(last'.args).card

\* the step ends the handler of a /uno_play that was called by the player
\* whose turn it was, naming a card of that player's hand
PlaysHeldCard ==
    /\ last'.op = "uno_play"
    /\ ~NotRunning(Found.GAMES, last'.cid)
    /\ CurrentPlayer(Found.GAMES[last'.cid]) = last'.uid
    /\ ParseArgs(last'.args).kind = "card"
    /\ InList(StepCard, HandOf(Found.GAMES, last'.cid, last'.uid))

\* the card is a wild, or has the current colour, or the rank of the top card
Playable(card, g) ==
    \/ card[1] = "wild"
    \/ card[1] = g.current_color
    \/ card[2] = g.pile[Len(g.pile)][2]

InvalidReply == <<Reply(<<"Invalid card: does not match color or value.">>)>>

\* the step put the card on the pile (a win deletes the session with it)
PutDown ==
    \/ last'.cid \notin DOMAIN GAMES'
    \/ GAMES'[last'.cid].pile = Append(Found.GAMES[last'.cid].pile, StepCard)

StepAccepted == last'.out # InvalidReply /\ PutDown

StepRejected ==
    /\ last'.out = InvalidReply
    /\ last'.cid \in DOMAIN GAMES'
    /\ GAMES'[last'.cid].pile = Found.GAMES[last'.cid].pile

\* C3: a play by the current player of a card they hold is accepted exactly
\* when the card is a wild, or its colour is the session's current_color
\* (the colour declared with a wild, not the top card's own), or its rank is
\* the rank of the top card of the pile; otherwise it is rejected as illegal.
LegalityDecides ==
    [][PlaysHeldCard =>
          IF Playable(StepCard, Found.GAMES[last'.cid]) THEN StepAccepted ELSE StepRejected]_vars

\* a card was accepted on its rank alone: its colour is neither wild nor the
\* colour of the card below it, which was the current colour
LegalityDecidesWitness ==
    /\ Succeeded("uno_play")
    /\ last.cid \in Started
    /\ LET pile == GAMES[last.cid].pile
           card == pile[Len(pile)]
           below == pile[Len(pile) - 1]
       IN  /\ card = ParseArgs(last.args).card
           /\ below[1] # "wild" /\ card[1] # "wild"
           /\ card[1] # below[1] /\ card[2] = below[2]

\* C4: when the legality check fails, play leaves the whole session (hands,
\* pile, deck, current_color, current index, direction, last_active), the
\* game file and the stats unchanged.
IllegalPlayChangesNothing ==
    [][(PlaysHeldCard /\ ~Playable(StepCard, Found.GAMES[last'.cid]))
          => LeftAsFound]_vars

\* a held card that matches neither the colour declared with the wild on top
\* of the pile nor its rank has been refused
IllegalPlayChangesNothingWitness ==
    /\ last.op = "uno_play" /\ last.out = InvalidReply
    /\ last.cid \in Started
    /\ LET g == GAMES[last.cid]
       IN  /\ InList(ParseArgs(last.args).card, g.hands[last.uid])
           /\ g.pile[Len(g.pile)][1] = "wild"
           /\ ~Playable(ParseArgs(last.args).card, g)

-----------------------------------------------------------------------------
(* C5, C6: a play that does not get to its end *)

\* C5: play is all-or-nothing: no play has taken its card from the hand and
\* put it on the pile without its colour update, effect and turn advancement
\* also applied and persisted, whether a penalty draw finds too few cards in
\* the deck or a reply fails between the steps of the play.
PlayAllOrNothing ==
    (last.op = "uno_play" /\ last.effect) =>
        /\ last.raised = NoError
        /\ last.cid \in DOMAIN GAMES =>
              /\ disk.exists
              /\ StrOf(last.cid) \in DOMAIN disk.content
              /\ DeserializeGame(disk.content[StrOf(last.cid)]) = GAMES[last.cid]

\* C6: when a draw2 (wild4) is played while the deck holds fewer than 2 (4)
\* cards, the pile below its top card is reshuffled into the deck and the
\* victim still receives exactly 2 (4) cards; the play never fails with an
\* exhausted deck.
PenaltyNeverExhaustsDeck ==
    [][(/\ PlaysHeldCard
        /\ Playable(StepCard, Found.GAMES[last'.cid])
        /\ PenaltyOf(StepCard) > 0
        /\ Len(Found.GAMES[last'.cid].deck) < PenaltyOf(StepCard))
          => LET g == Found.GAMES[last'.cid]
                 victim == CurrentPlayer(advance_turn(g))
             IN  /\ last'.raised # "IndexError"
                 /\ (last'.raised = NoError /\ last'.cid \in DOMAIN GAMES') =>
                       Len(GAMES'[last'.cid].hands[victim])
                          = Len(g.hands[victim]) + PenaltyOf(StepCard)]_vars


-----------------------------------------------------------------------------
(* C7: the rebuild of the deck in uno_draw *)

\* the step handles a /uno_draw of the player whose turn it is while the
\* deck is empty and the pile holds at least two cards
DrawsFromEmptyDeck ==
    /\ last'.op = "uno_draw"
    /\ ~NotRunning(Found.GAMES, last'.cid)
    /\ CurrentPlayer(Found.GAMES[last'.cid]) = last'.uid
    /\ Len(Found.GAMES[last'.cid].deck) = 0
    /\ Len(Found.GAMES[last'.cid].pile) >= 2

\* C7: whenever the current player draws while the deck is empty and the pile
\* holds at least 2 cards, the draw succeeds; after it the pile holds exactly
\* one card, the previous top card, the other pile cards have moved to the
\* deck, and the player has received one of them.
ReshuffleOnDraw ==
    [][DrawsFromEmptyDeck =>
          LET g == Found.GAMES[last'.cid]
              h == GAMES'[last'.cid]
              hand == h.hands[last'.uid]
          IN  /\ last'.raised # "IndexError"
              /\ last'.cid \in DOMAIN GAMES'
              /\ h.pile = <<g.pile[Len(g.pile)]>>
              /\ hand = Append(g.hands[last'.uid], hand[Len(hand)])
              /\ SameCards(Append(h.deck, hand[Len(hand)]),
                           SubSeq(g.pile, 1, Len(g.pile) - 1))]_vars

\* a draw has rebuilt the deck from a pile of more than two cards
ReshuffleOnDrawWitness ==
    /\ Succeeded("uno_draw")
    /\ last.cid \in Started
    /\ Len(GAMES[last.cid].pile) = 1
    /\ Len(GAMES[last.cid].deck) > 1
    /\ Len(AllCards(GAMES[last.cid])) = 108

-----------------------------------------------------------------------------
(* C8, C9, C10: the game file *)

\* the file holds the session of the last update exactly as GAMES does, and a
\* restart recovers it
Durable ==
    /\ disk.exists
    /\ StrOf(last.cid) \in DOMAIN disk.content
    /\ DeserializeGame(disk.content[StrOf(last.cid)]) = GAMES[last.cid]
    /\ last.cid \in DOMAIN Recovered
    /\ Recovered[last.cid] = GAMES[last.cid]

\* C8: whenever a successful start, join, begin or non-winning play has
\* returned, the durable copy of that session equals the session in memory in
\* every field, so that a restart at that point recovers exactly the state
\* the command produced.
WriteAfterMutate ==
    (/\ \E op \in {"uno_start", "uno_join", "uno_begin", "uno_play"} : Succeeded(op)
     /\ last.cid \in DOMAIN GAMES)
        => Durable

\* a wild has been played and a colour other than the one of any card on the
\* pile declared, the next player has drawn the penalty, and the play returned
WriteAfterMutateWitness ==
    /\ Succeeded("uno_play")
    /\ last.cid \in Started
    /\ ParseArgs(last.args).card = <<"wild", "wild4">>
    /\ GAMES[last.cid].current_color = ParseArgs(last.args).chosen_color
    /\ Len(GAMES[last.cid].hands[GAMES[last.cid].players[2]]) = HandSize + 4

\* C9: after a successful draw has returned, the durable copy of the session
\* records the turn advancement of that draw: a restart and recovery directly
\* after it yields a session whose current player is the player after the
\* one who drew, not the drawer again.
DrawAdvanceIsDurable ==
    (Succeeded("uno_draw") /\ last.cid \in DOMAIN GAMES) =>
        /\ last.cid \in DOMAIN Recovered
        /\ Recovered[last.cid].current = GAMES[last.cid].current
        /\ CurrentPlayer(Recovered[last.cid]) # last.uid

\* C10: a deleted session never comes back: after a session has been deleted
\* by a win, by reset or by the expiry sweep, a restart followed by recovery
\* yields a store that does not contain it, also when it was the only live
\* session at the time of deletion.
DeletedStaysDeleted ==
    \A cid \in Chats : cid \notin DOMAIN GAMES => cid \notin DOMAIN Recovered


-----------------------------------------------------------------------------
(* C11: the win *)

\* the wins the stats file records for user u in chat c
WinsOf(st, c, u) ==
    IF StrOf(c) \in DOMAIN st /\ \E i \in 1..Len(st[StrOf(c)]) : st[StrOf(c)][i][1] = StrOf(u)
    THEN LET cs == st[StrOf(c)]
         IN  cs[CHOOSE i \in 1..Len(cs) : cs[i][1] = StrOf(u)][2]
    ELSE 0

\* the step handles a legal play of the last card of the current player's
\* hand, and no reply to Telegram fails
PlaysLastCard ==
    /\ PlaysHeldCard
    /\ Playable(StepCard, Found.GAMES[last'.cid])
    /\ Len(Found.GAMES[last'.cid].hands[last'.uid]) = 1
    /\ last'.raised # "TelegramError"

\* C11: when a play leaves the acting player's hand empty, the stats count
\* of that player for that session is incremented by exactly 1 and the
\* session is deleted, so that every later status, play or draw for that
\* session id finds no session until a new start.
WinEndsSession ==
    [][/\ PlaysLastCard =>
             /\ last'.cid \notin DOMAIN GAMES'
             /\ WinsOf(stats', last'.cid, last'.uid)
                   = WinsOf(Found.stats, last'.cid, last'.uid) + 1
       /\ \A cid \in Chats :
             (/\ StrOf(cid) \in DOMAIN stats
              /\ cid \notin DOMAIN GAMES
              /\ cid \in DOMAIN GAMES')
                => (last'.op = "uno_start" /\ last'.cid = cid)]_vars

-----------------------------------------------------------------------------
(* C12, C13: uno_start and the session that is not started *)

\* C12: start on a session id for which a session already exists (awaiting
\* players or in progress) fails and leaves the existing session unchanged:
\* its players, hands, deck, pile and turn state are not replaced.
StartKeepsExistingSession ==
    [][(last'.op = "uno_start" /\ last'.cid \in DOMAIN GAMES)
          => (last'.cid \in DOMAIN GAMES' /\ GAMES'[last'.cid] = GAMES[last'.cid])]_vars

\* C13: in every reachable state of a session that is not started, its
\* hands, its deck and its pile are all empty.
UnstartedSessionIsEmpty ==
    \A cid \in DOMAIN GAMES :
        ~GAMES[cid].started =>
            /\ \A u \in DOMAIN GAMES[cid].hands : GAMES[cid].hands[u] = <<>>
            /\ GAMES[cid].deck = <<>>
            /\ GAMES[cid].pile = <<>>


-----------------------------------------------------------------------------
(* C14: uno_begin *)

\* C14: begin on an unstarted session with n >= 2 joined players, for every
\* such n, gives each player exactly 7 cards in join order, puts exactly 1
\* card on the pile and leaves 108 - 7n - 1 cards in the deck.
BeginDealsSevenEach ==
    [][(/\ last'.op = "uno_begin"
        /\ last'.cid \in DOMAIN GAMES
        /\ ~GAMES[last'.cid].started
        /\ Len(GAMES[last'.cid].players) >= 2)
          => /\ last'.cid \in DOMAIN GAMES'
             /\ LET g == GAMES[last'.cid]
                    h == GAMES'[last'.cid]
                    n == Len(g.players)
                IN  /\ h.started
                    /\ DOMAIN h.hands = {g.players[i] : i \in 1..n}
                    /\ \A i \in 1..n :
                          h.hands[g.players[i]] = PopMany(AfterPops(g.deck, 7 * (i - 1)), 7)
                    /\ Len(h.pile) = 1
                    /\ Len(h.deck) = 108 - 7 * n - 1]_vars

-----------------------------------------------------------------------------
(* C15, C16, C17: the effects of the cards *)

\* the step ends the handler of a legal play, by the player whose turn it
\* was, of a held card that is not the last of the hand
PlaysLegalCard ==
    /\ PlaysHeldCard
    /\ Playable(StepCard, Found.GAMES[last'.cid])
    /\ Len(Found.GAMES[last'.cid].hands[last'.uid]) > 1

\* such a play, and no reply to Telegram fails
PlaysOn == PlaysLegalCard /\ last'.raised # "TelegramError"

\* the index k advancements after index c in direction d among n players
IndexAfter(c, d, n, k) == (c + k * d) % n

\* C15: when the current player plays a legal reverse in a session with
\* exactly 2 players, direction is negated and the index of the current
\* player after the play equals its value before: the acting player acts
\* again.
ReverseWithTwoPlayers ==
    [][(PlaysLegalCard /\ StepCard[2] = "reverse"
          /\ Len(Found.GAMES[last'.cid].players) = 2)
          => /\ last'.cid \in DOMAIN GAMES'
             /\ GAMES'[last'.cid].direction = -1 * Found.GAMES[last'.cid].direction
             /\ GAMES'[last'.cid].current = Found.GAMES[last'.cid].current
             /\ CurrentPlayer(GAMES'[last'.cid]) = last'.uid]_vars

\* a reverse was played between two players and its player is to act again
ReverseWithTwoPlayersWitness ==
    /\ Succeeded("uno_play")
    /\ last.cid \in Started
    /\ ParseArgs(last.args).card[2] = "reverse"
    /\ Len(GAMES[last.cid].players) = 2
    /\ CurrentPlayer(GAMES[last.cid]) = last.uid
    /\ GAMES[last.cid].pile[Len(GAMES[last.cid].pile)][2] = "reverse"

\* C16: when players[c] plays a legal, non-winning draw2 (wild4) with
\* direction d among n players, the victim is players[(c + d) mod n], the
\* victim's hand grows by exactly 2 (4) cards taken from the deck, no other
\* hand grows, and the next to act is players[(c + 2d) mod n].
PenaltyHitsNextPlayer ==
    [][(PlaysOn /\ PenaltyOf(StepCard) > 0)
          => /\ last'.cid \in DOMAIN GAMES'
             /\ LET g == Found.GAMES[last'.cid]
                    h == GAMES'[last'.cid]
                    n == Len(g.players)
                    victim == g.players[IndexAfter(g.current, g.direction, n, 1) + 1]
                IN  /\ Len(h.hands[victim]) = Len(g.hands[victim]) + PenaltyOf(StepCard)
                    /\ \A u \in DOMAIN g.hands \ {victim} : Len(h.hands[u]) <= Len(g.hands[u])
                    /\ Len(AllCards(h)) = Len(AllCards(g))
                    /\ h.current = IndexAfter(g.current, g.direction, n, 2)]_vars

\* C17: when players[c] plays a legal, non-winning skip with direction d
\* among n players, direction is unchanged and the next to act is
\* players[(c + 2d) mod n]; a numeral or plain wild instead passes the turn
\* to players[(c + d) mod n].
SkipPassesOver ==
    [][(PlaysLegalCard /\ StepCard[2] \in Digits \cup {"skip", "wild"})
          => /\ last'.cid \in DOMAIN GAMES'
             /\ LET g == Found.GAMES[last'.cid]
                    h == GAMES'[last'.cid]
                    k == IF StepCard[2] = "skip" THEN 2 ELSE 1
                IN  /\ h.direction = g.direction
                    /\ h.current = IndexAfter(g.current, g.direction, Len(g.players), k)]_vars

\* a skip was played among three players: the turn went past one of them
SkipPassesOverWitness ==
    /\ Succeeded("uno_play")
    /\ last.cid \in Started
    /\ ParseArgs(last.args).card[2] = "skip"
    /\ Len(GAMES[last.cid].players) = 3
    /\ CurrentPlayer(GAMES[last.cid]) # last.uid
    /\ GAMES[last.cid].current = IndexAfter(0, 1, 3, 3)


-----------------------------------------------------------------------------
(* C18: uno_draw *)

\* C18: a successful draw by players[c] with direction d among n players
\* moves exactly one card from the deck to that player's hand, leaves the
\* pile top, current_color and direction unchanged, and sets the current
\* player to players[(c + d) mod n].
DrawEndsTurn ==
    [][(/\ last'.op = "uno_draw"
        /\ ~NotRunning(Found.GAMES, last'.cid)
        /\ CurrentPlayer(Found.GAMES[last'.cid]) = last'.uid
        /\ last'.raised = NoError
        /\ last'.effect)
          => /\ last'.cid \in DOMAIN GAMES'
             /\ LET g == Found.GAMES[last'.cid]
                    h == GAMES'[last'.cid]
                    hand == h.hands[last'.uid]
                    drawn == hand[Len(hand)]
                IN  /\ hand = Append(g.hands[last'.uid], drawn)
                    /\ \A u \in DOMAIN g.hands \ {last'.uid} : h.hands[u] = g.hands[u]
                    /\ Len(g.deck) > 0 =>
                          /\ drawn = g.deck[Len(g.deck)]
                          /\ h.deck = AfterPops(g.deck, 1)
                          /\ h.pile = g.pile
                    /\ Len(g.deck) = 0 =>
                          /\ h.pile = <<g.pile[Len(g.pile)]>>
                          /\ SameCards(Append(h.deck, drawn), AfterPops(g.pile, 1))
                    /\ h.pile[Len(h.pile)] = g.pile[Len(g.pile)]
                    /\ h.current_color = g.current_color
                    /\ h.direction = g.direction
                    /\ h.current = IndexAfter(g.current, g.direction, Len(g.players), 1)]_vars

\* the first of three players has drawn an eighth card and the turn went on
DrawEndsTurnWitness ==
    /\ Succeeded("uno_draw")
    /\ last.cid \in Started
    /\ Len(GAMES[last.cid].players) = 3
    /\ Len(GAMES[last.cid].hands[last.uid]) = HandSize + 1
    /\ GAMES[last.cid].current = 1
    /\ last.uid = GAMES[last.cid].players[1]

-----------------------------------------------------------------------------
(* C19: play and draw out of turn *)

NotRunningReply == <<Reply(<<"The game is not running.">>)>>

NotYourTurnReply == <<Reply(<<"It's not your turn.">>)>>

\* C19: play and draw by a player who is not players[current] (a user who
\* never joined included), and play or draw on a session that does not exist
\* or is not started, are rejected and leave the session, the game file and
\* the stats unchanged.
OutOfTurnRejected ==
    [][(/\ last'.op \in {"uno_play", "uno_draw"}
        /\ \/ NotRunning(Found.GAMES, last'.cid)
           \/ CurrentPlayer(Found.GAMES[last'.cid]) # last'.uid)
          => /\ LeftAsFound
             /\ last'.out = IF last'.cid \in DOMAIN Found.GAMES /\ Found.GAMES[last'.cid].started
                            THEN NotYourTurnReply ELSE NotRunningReply]_vars

\* a player holding cards, whose turn it is not, has asked for a card and
\* has been refused
OutOfTurnRejectedWitness ==
    /\ last.op = "uno_draw"
    /\ last.out = NotYourTurnReply
    /\ ~last.effect
    /\ last.cid \in Started
    /\ last.uid \in DOMAIN GAMES[last.cid].hands
    /\ CurrentPlayer(GAMES[last.cid]) # last.uid

-----------------------------------------------------------------------------
(* C20: the colour declared with a wild *)

ChooseReply == <<Reply(<<"Choose a color: red/green/blue/yellow">>)>>

\* the step handles a play, by the player whose turn it is, that names a
\* wild or wild4 without one of the four colours
NamesWildWithoutColor ==
    /\ last'.op = "uno_play"
    /\ ~NotRunning(Found.GAMES, last'.cid)
    /\ CurrentPlayer(Found.GAMES[last'.cid]) = last'.uid
    /\ Len(last'.args) >= 1
    /\ lower(last'.args[1]) \in {"wild", "wild4"}
    /\ \/ Len(last'.args) < 2
       \/ lower(last'.args[2]) \notin {"red", "green", "blue", "yellow"}

\* C20: a play of a wild or wild4 without a declared colour, or with one
\* that is not red, green, blue or yellow, is rejected and leaves the session
\* unchanged; an accepted wild or wild4 sets current_color to the declared
\* colour, an accepted other card sets it to the card's own colour.
WildNeedsColor ==
    [][/\ NamesWildWithoutColor =>
             (LeftAsFound /\ last'.out = ChooseReply)
       /\ (/\ PlaysHeldCard
           /\ Playable(StepCard, Found.GAMES[last'.cid])
           /\ last'.cid \in DOMAIN GAMES')
             => GAMES'[last'.cid].current_color =
                   IF StepCard[1] = "wild" THEN lower(last'.args[2]) ELSE StepCard[1]]_vars

\* a plain wild was accepted and the colour of the session is the declared
\* one, which no card below it on the pile has
WildNeedsColorWitness ==
    /\ Succeeded("uno_play")
    /\ last.cid \in Started
    /\ ParseArgs(last.args).card = <<"wild", "wild">>
    /\ GAMES[last.cid].current_color = last.args[2]
    /\ LET pile == GAMES[last.cid].pile
       IN  /\ pile[Len(pile)] = <<"wild", "wild">>
           /\ \A i \in 1..Len(pile) : pile[i][1] # last.args[2]

-----------------------------------------------------------------------------
(* C21: uno_join *)

\* no player is twice in a players list
NoDuplicatePlayers ==
    \A cid \in DOMAIN GAMES :
        LET players == GAMES[cid].players
        IN  \A i, j \in 1..Len(players) : i # j => players[i] # players[j]

\* the fields of a session other than players and last_active
SessionBody(g) ==
    <<g.hands, g.deck, g.pile, g.current, g.direction, g.current_color, g.started>>

\* the step handles a join: the player is appended when the session exists,
\* is not started and does not hold the player, and nothing changes otherwise
JoinStep ==
    last'.op = "uno_join" =>
        LET cid == last'.cid
            uid == last'.uid
        IN  IF /\ cid \in DOMAIN GAMES
               /\ ~GAMES[cid].started
               /\ \A i \in 1..Len(GAMES[cid].players) : GAMES[cid].players[i] # uid
            THEN /\ DOMAIN GAMES' = DOMAIN GAMES
                 /\ GAMES'[cid].players = Append(GAMES[cid].players, uid)
                 /\ SessionBody(GAMES'[cid]) = SessionBody(GAMES[cid])
                 /\ \A c \in DOMAIN GAMES \ {cid} : GAMES'[c] = GAMES[c]
            ELSE UNCHANGED <<GAMES, disk, stats>>

\* while the process runs and the session is not started anew, its players
\* list changes only by a join that appends to it
KeepsJoinOrder ==
    \A cid \in DOMAIN GAMES \cap DOMAIN GAMES' :
        \/ last'.op = "load"
        \/ last'.op = "uno_start" /\ last'.cid = cid
        \/ GAMES'[cid].players = GAMES[cid].players
        \/ /\ last'.op = "uno_join" /\ last'.cid = cid
           /\ GAMES'[cid].players = Append(GAMES[cid].players, last'.uid)

\* C21: uno_join appends the player to the end of the players list exactly
\* when the session exists, is not started and does not contain the player,
\* and leaves the session unchanged in the three other cases; so no players
\* list ever holds a player twice, and players stay in the order they joined.
JoinAppendsOnce ==
    NoDuplicatePlayers /\ [][JoinStep /\ KeepsJoinOrder /\ NoDuplicatePlayers']_vars

\* the second player has joined a session and stands behind the first
JoinAppendsOnceWitness ==
    /\ Succeeded("uno_join")
    /\ last.cid \in DOMAIN GAMES
    /\ ~GAMES[last.cid].started
    /\ Len(GAMES[last.cid].players) = 2
    /\ GAMES[last.cid].players[2] = last.uid
    /\ GAMES[last.cid].players[1] # last.uid

-----------------------------------------------------------------------------
(* C22: uno_begin rejected *)

InProgressReply == <<Reply(<<"Game already in progress.">>)>>

\* the reply of uno_begin when it refuses to begin the session g of chat cid
BeginRefusal(G, cid) ==
    IF cid \notin DOMAIN G THEN <<Reply(<<"Start the game first with /uno_start.">>)>>
    ELSE IF G[cid].started THEN InProgressReply
    ELSE <<Reply(<<"Need at least 2 players.">>)>>

\* C22: uno_begin on a chat without a session, on a started session and on a
\* session with fewer than 2 players is rejected and changes nothing; a begin
\* on a started session deals no hand and flips no card.
BeginRejected ==
    [][(/\ last'.op = "uno_begin"
        /\ \/ last'.cid \notin DOMAIN GAMES
           \/ GAMES[last'.cid].started
           \/ Len(GAMES[last'.cid].players) < 2)
          => /\ UNCHANGED <<GAMES, disk, stats>>
             /\ last'.out = BeginRefusal(GAMES, last'.cid)
             /\ last'.raised = NoError]_vars

\* a begin was asked for a game in progress and refused
BeginRejectedWitness ==
    /\ last.op = "uno_begin"
    /\ ~last.effect
    /\ last.out = InProgressReply
    /\ last.cid \in Started
    /\ steps > 0
    /\ Len(GAMES[last.cid].pile) > 0

-----------------------------------------------------------------------------
(* C23: the players of a started session *)

\* every started session has at least 2 players
StartedHasTwo == \A cid \in Started : Len(GAMES[cid].players) >= 2

\* a session that is started after the step has the players it had before
\* it, whether the step began it or found it started
StartedKeepsPlayers ==
    \A cid \in DOMAIN GAMES \cap DOMAIN GAMES' :
        (/\ GAMES'[cid].started
         /\ GAMES[cid].started \/ last'.op = "uno_begin")
            => GAMES'[cid].players = GAMES[cid].players

\* C23: a started session has at least 2 players in every reachable state,
\* and its players list is the one it was begun with: no step adds, removes
\* or reorders a player of a session that stays started.
PlayersFixed ==
    StartedHasTwo /\ [][StartedHasTwo' /\ StartedKeepsPlayers]_vars

\* a user who is not in a game in progress asked to join it and was refused
PlayersFixedWitness ==
    /\ last.op = "uno_join"
    /\ ~last.effect
    /\ last.out = <<Reply(<<"Game already started!">>)>>
    /\ last.cid \in Started
    /\ \A i \in 1..Len(GAMES[last.cid].players) : GAMES[last.cid].players[i] # last.uid
    /\ steps > 0

-----------------------------------------------------------------------------
(* C24: commands of one session do not interleave *)

\* every suspended call holds the session GAMES has for its chat: no other
\* handler has bound the chat to another session or deleted it
HoldsSession ==
    \A h \in inflight.calls : h.ref = 0 /\ h.cid \in DOMAIN GAMES

\* a step that leaves a call suspended where it is leaves its session as the
\* call left it
SessionKept ==
    \A h \in inflight.calls :
        h \in inflight'.calls => GAMES'[h.cid] = GAMES[h.cid]

\* a step for the session of a suspended call is that call going on or ending
OnlyResumes ==
    \A h \in inflight.calls : last'.cid = h.cid => h \notin inflight'.calls

\* C24: while a call of uno_play or uno_draw is between its first mutation
\* and its last, suspended at an await, no other command reads or changes
\* its session: the session stays as the call left it, and the next step
\* for that session is the call itself going on.
NoInterleaving ==
    HoldsSession /\ [][HoldsSession' /\ SessionKept /\ OnlyResumes]_vars

\* a wild4 is on the pile and the next player holds the four cards of the
\* penalty, while the call awaits the reply that announces it and the turn
\* has not passed the punished player
NoInterleavingWitness ==
    \E h \in inflight.calls :
        /\ h.op = "uno_play"
        /\ h.at = "penalty"
        /\ h.cid \in Started
        /\ LET g == GAMES[h.cid]
           IN  /\ g.pile[Len(g.pile)] = <<"wild", "wild4">>
               /\ CurrentPlayer(g) # h.uid
               /\ Len(g.hands[CurrentPlayer(g)]) = HandSize + 4

-----------------------------------------------------------------------------
(* C25: session isolation *)

\* the commands of the UNO module
Commands ==
    {"uno_start", "uno_join", "uno_begin", "uno_reset", "uno_status", "uno_hand",
     "uno_play", "uno_draw"}

\* the entry of chat c in the stats ledger
StatsOf(st, c) == IF StrOf(c) \in DOMAIN st THEN st[StrOf(c)] ELSE <<>>

\* C25: a command addressed to the session of one chat, accepted, rejected
\* or failed, leaves the in-memory session of every other chat as it was (it
\* neither creates nor deletes nor changes it) and leaves the stats entry of
\* every other chat unchanged.
SessionIsolation ==
    [][last'.op \in Commands \cup {"await"} =>
          \A b \in Chats \ {last'.cid} :
              /\ (b \in DOMAIN GAMES') = (b \in DOMAIN GAMES)
              /\ b \in DOMAIN GAMES => GAMES'[b] = GAMES[b]
              /\ StatsOf(stats', b) = StatsOf(stats, b)]_vars

\* the game of one chat was won and recorded, and the session of the other
\* chat is the one read from the file when the process started
SessionIsolationWitness ==
    /\ Succeeded("uno_play")
    /\ last.cid \notin DOMAIN GAMES
    /\ StatsOf(stats, last.cid) # <<>>
    /\ \E b \in DOMAIN GAMES :
          /\ b # last.cid
          /\ GAMES[b] = JoinedGame
          /\ StatsOf(stats, b) = <<>>

-----------------------------------------------------------------------------
(* C26: uno_hand *)

\* C26: uno_hand, for any user and any state of the session, leaves every
\* field of the session, last_active included, and the game file unchanged.
HandIsPureRead ==
    [][last'.op = "uno_hand" => UNCHANGED <<GAMES, disk>>]_vars

-----------------------------------------------------------------------------
(* C27: uno_status *)

\* C27: uno_status, for a chat with a started session, with an unstarted
\* session or with none, leaves GAMES, the game file and the stats unchanged.
StatusIsPureRead ==
    [][last'.op = "uno_status" => UNCHANGED <<GAMES, disk, stats>>]_vars

\* the status of a game in progress was shown while the file is behind the
\* session in memory
StatusIsPureReadWitness ==
    /\ last.op = "uno_status"
    /\ ~last.effect
    /\ last.raised = NoError
    /\ last.cid \in Started
    /\ Len(GAMES[last.cid].pile) > 0
    /\ last.out = StatusResult(GAMES, disk, stats, last.cid).out
    /\ last.cid \in DOMAIN Recovered
    /\ Recovered[last.cid] # GAMES[last.cid]

-----------------------------------------------------------------------------
(* C28: hand privacy *)

\* the message goes into the shared chat of the session
IsShared(m) == m[1] = "chat"

\* the messages of a handler that every member of the chat reads
SharedMessages(out) == SelectSeq(out, IsShared)

\* the same session with the two cards on top of the deck exchanged: a run
\* that differs only in which card is drawn next
OtherDraw(g) ==
    LET n == Len(g.deck)
    IN  IF n < 2 THEN g
        ELSE [g EXCEPT !.deck = [i \in 1..n |-> IF i = n THEN g.deck[n - 1]
                                               ELSE IF i = n - 1 THEN g.deck[n]
                                               ELSE g.deck[i]]]

\* the same session with the first card of the hand of uid exchanged for the
\* card on top of the deck: a run that differs only in a card held in a hand
OtherHand(g, uid) ==
    IF uid \notin DOMAIN g.hands \/ Len(g.hands[uid]) = 0 \/ Len(g.deck) = 0 THEN g
    ELSE [g EXCEPT !.hands[uid] = [@ EXCEPT ![1] = g.deck[Len(g.deck)]],
                   !.deck = [@ EXCEPT ![Len(g.deck)] = g.hands[uid][1]]]

\* C28: what a command sends into the shared chat does not depend on the
\* cards held in hands or lying in the deck: a draw sends the same shared
\* messages when another card is drawn, a request for the hand sends the
\* same shared messages for another hand, and sends the hand to its owner
\* only.
HandPrivacy ==
    [][/\ (/\ last'.op = "uno_draw"
           /\ last'.raised = NoError
           /\ last'.cid \in DOMAIN Found.GAMES
           /\ Len(Found.GAMES[last'.cid].deck) >= 2)
             => SharedMessages(last'.out) =
                   SharedMessages(DrawResult([Found.GAMES EXCEPT ![last'.cid] = OtherDraw(@)],
                                             Found.disk, Found.stats,
                                             last'.cid, last'.uid, "id", now).out)
       /\ (last'.op = "uno_hand" /\ last'.cid \in DOMAIN GAMES)
             => /\ SharedMessages(last'.out) =
                      SharedMessages(HandResult([GAMES EXCEPT ![last'.cid] = OtherHand(@, last'.uid)],
                                                disk, stats, last'.cid, last'.uid, now).out)
                /\ \A i \in 1..Len(last'.out) :
                      last'.out[i][1] = "private" => last'.out[i][2] = last'.uid]_vars

-----------------------------------------------------------------------------
(* C29: the expiry sweep *)

\* G is the Session Store L after a sweep at time t: the sessions of L last
\* active at most 24 hours before t, each as it was
Swept(G, L, t) ==
    /\ DOMAIN G = {c \in DOMAIN L : t - L[c].last_active <= 24}
    /\ \A c \in DOMAIN G : G[c] = L[c]

\* in a state the process has just been started in for the first time, GAMES
\* is the store read from the file of that start after a sweep
SweptAtStart ==
    (steps = 0 /\ last.op = "load") =>
        \E s \in Starts : now = s[2] /\ Swept(GAMES, load_games(s[1], EmptyDict), s[2])

\* C29: a run of the sweep at time t removes from the Session Store exactly
\* the sessions whose last_active is more than 24 hours before t, and keeps
\* every other session with all its fields unchanged; the store it sweeps is
\* the one load_games has just read from the file.
ExpirySweep ==
    [][/\ SweptAtStart
       /\ last'.op = "load" => Swept(GAMES', load_games(disk, EmptyDict), now')]_vars

\* the process was down for 24 hours: the game last active 25 hours ago is
\* gone, the session last active 24 hours ago is kept as it was
ExpirySweepWitness ==
    /\ last.op = "load"
    /\ steps = 1
    /\ now = 1 + 24
    /\ DOMAIN GAMES = {2}
    /\ GAMES[2] = JoinedGame
    /\ now - RecoveredGame.last_active = 25
    /\ now - JoinedGame.last_active = 24

-----------------------------------------------------------------------------
(* C30: the expiry sweep run twice *)

\* the times of a sweep: now, and 24 and 25 hours from now
SweepTimes == {now, now + 24, now + 25}

\* C30: a second run of the sweep right after a first, at the same time and
\* with no command in between, removes no session: the Session Store after
\* the second run is the store after the first.  This holds for a sweep of
\* any reachable store, and for the sweep the process has just run when it
\* was loaded.
SweepIdempotent ==
    /\ \A t \in SweepTimes :
          LET once == cleanup_old_games(GAMES, disk, t)
              twice == cleanup_old_games(once.GAMES, once.disk, t)
          IN  /\ DOMAIN twice.GAMES = DOMAIN once.GAMES
              /\ twice.GAMES = once.GAMES
    /\ last.op = "load" => cleanup_old_games(GAMES, disk, now).GAMES = GAMES

\* the process was loaded after a downtime and its sweep removed a session
\* and kept another, which the file now holds alone
SweepIdempotentWitness ==
    /\ last.op = "load"
    /\ steps = 1
    /\ now = 1 + ExpiryHours
    /\ DOMAIN GAMES = {2}
    /\ DOMAIN RecoveredFile.content = {"1", "2"}
    /\ disk = save_games(GAMES, NoFile)
    /\ \E c \in DOMAIN GAMES : now - GAMES[c].last_active = ExpiryHours

-----------------------------------------------------------------------------
(* C31: persistence round trip *)

\* the Session Store a process would load from the file save_games writes
\* for the store G
Reloaded(G) == load_games(save_games(G, NoFile), EmptyDict)

\* C31: for every reachable non-empty Session Store, save_games followed by
\* load_games gives a store with the same chats, and for each of them equal
\* players, hands (the same cards in the same order for every player), deck,
\* pile, current index, direction, current colour, started flag and
\* last_active.
RoundTrip ==
    DOMAIN GAMES # {} =>
        /\ save_games(GAMES, NoFile).exists
        /\ DOMAIN Reloaded(GAMES) = DOMAIN GAMES
        /\ \A c \in DOMAIN GAMES :
              LET g == GAMES[c]
                  r == Reloaded(GAMES)[c]
              IN  /\ r.players = g.players
                  /\ DOMAIN r.hands = DOMAIN g.hands
                  /\ \A u \in DOMAIN g.hands : r.hands[u] = g.hands[u]
                  /\ r.deck = g.deck
                  /\ r.pile = g.pile
                  /\ r.current = g.current
                  /\ r.direction = g.direction
                  /\ r.current_color = g.current_color
                  /\ r.started = g.started
                  /\ r.last_active = g.last_active

\* the store holds a game in progress with dealt hands, a wild on the pile
\* and play running backwards, next to an unstarted session without colour
RoundTripWitness ==
    /\ Succeeded("uno_play")
    /\ \E c \in Started :
          /\ GAMES[c].direction = -1
          /\ GAMES[c].pile[Len(GAMES[c].pile)][1] = "wild"
          /\ \E u \in DOMAIN GAMES[c].hands : Len(GAMES[c].hands[u]) > 1
    /\ \E c \in DOMAIN GAMES : ~GAMES[c].started /\ GAMES[c].current_color = None
    /\ Recovered = GAMES

-----------------------------------------------------------------------------
(* C32: the stats ledger *)

\* the chats and users the ledger has a count for
Ledger(st) == UNION {{<<c, st[c][i][1]>> : i \in 1..Len(st[c])} : c \in DOMAIN st}

\* the count of the ledger st for an entry e of a ledger
CountOf(st, e) ==
    IF e[1] \in DOMAIN st /\ \E i \in 1..Len(st[e[1]]) : st[e[1]][i][1] = e[2]
    THEN LET cs == st[e[1]]
         IN  cs[CHOOSE i \in 1..Len(cs) : cs[i][1] = e[2]][2]
    ELSE 0

\* the step handles a legal play of the last card of the current player's hand
WinningPlay ==
    /\ PlaysHeldCard
    /\ Playable(StepCard, Found.GAMES[last'.cid])
    /\ Len(Found.GAMES[last'.cid].hands[last'.uid]) = 1

\* the step changes the count of the acting player in the acting chat by +1
\* and no other count
OneMoreWin ==
    LET w == <<StrOf(last'.cid), StrOf(last'.uid)>>
    IN  /\ Ledger(stats') = Ledger(stats) \cup {w}
        /\ CountOf(stats', w) = CountOf(stats, w) + 1
        /\ \A e \in Ledger(stats) \ {w} : CountOf(stats', e) = CountOf(stats, e)

\* C32: start, join, begin, draw, reset, the sweep and every play that does
\* not win or is rejected leave every win count of the stats ledger as it
\* was; only a winning play changes the ledger, and it changes exactly one
\* count, by +1.  Counts never decrease and survive the deletion of their
\* session.
LedgerLifecycle ==
    [][/\ stats' # stats => (WinningPlay /\ OneMoreWin)
       /\ \A e \in Ledger(stats) :
             e \in Ledger(stats') /\ CountOf(stats', e) >= CountOf(stats, e)]_vars

\* user 1, who had two wins in chat 1, has won a third time; the count of
\* user 2 is as it was, and both outlive the session
LedgerLifecycleWitness ==
    /\ Succeeded("uno_play")
    /\ 1 \notin DOMAIN GAMES
    /\ CountOf(stats, <<"1", "1">>) = CountOf(PriorStats, <<"1", "1">>) + 1
    /\ CountOf(stats, <<"1", "2">>) = CountOf(PriorStats, <<"1", "2">>)
    /\ Ledger(stats) = Ledger(PriorStats)

-----------------------------------------------------------------------------
(* C33: uno_top10 *)

\* the list uno_top10 has shown
TopShown == last.out[1][2][2]

\* uno_top10 has answered with a list
ShowsTop == last.op = "uno_top10" /\ last.out[1][2][1] = "Top 10 UNO Winners:"

\* the place of the entry of user u in the ledger cs: entries are appended
\* when they are created
CreatedAt(cs, u) == CHOOSE i \in 1..Len(cs) : cs[i][1] = u

\* the entry a goes before the entry b of the ledger cs: it has more wins,
\* or as many and was created first
GoesBefore(cs, a, b) ==
    \/ a[2] > b[2]
    \/ a[2] = b[2] /\ CreatedAt(cs, a[1]) < CreatedAt(cs, b[1])

\* C33: top10 lists at most 10 players of the session's ledger in order of
\* win count, highest first, and two players with equal win counts appear in
\* the order in which their ledger entries were first created; the players
\* it leaves out go behind every player it lists.
TopTenOrdered ==
    ShowsTop =>
        LET cs == StatsOf(stats, last.cid)
            top == TopShown
            entries == {cs[i] : i \in 1..Len(cs)}
            listed == {top[i] : i \in 1..Len(top)}
        IN  /\ Len(top) = IF Len(cs) < 10 THEN Len(cs) ELSE 10
            /\ listed \subseteq entries
            /\ \A i, j \in 1..Len(top) : i < j => GoesBefore(cs, top[i], top[j])
            /\ \A a \in listed, b \in entries \ listed : GoesBefore(cs, a, b)

\* a list of ten of the eleven players of a ledger created against the order
\* of the user ids: the second and the third created are first and second
\* with 2 wins, the first created is third with 1 win, and the last created,
\* with 1 win as well, is left out
TopTenOrderedWitness ==
    /\ ShowsTop
    /\ Len(StatsOf(stats, last.cid)) = MaxWinners
    /\ Len(TopShown) = TopN
    /\ StatsOf(stats, last.cid)[1] = <<StrOf(MaxWinners), 1>>
    /\ TopShown[1] = <<StrOf(MaxWinners - 1), 2>>
    /\ TopShown[2] = <<StrOf(MaxWinners - 2), 2>>
    /\ TopShown[3] = <<StrOf(MaxWinners), 1>>
    /\ TopShown[TopN][1] = StrOf(MaxWinners - TopN + 1)

-----------------------------------------------------------------------------
(* C34: reverse among three or more players *)

\* the step handles a command that advances the turn once: a legal play of
\* a numeral or a wild that does not win, or a draw that got to its end
AdvancesOnce ==
    \/ PlaysLegalCard /\ (StepCard[2] \in Digits \/ StepCard[2] = "wild")
    \/ /\ last'.op = "uno_draw"
       /\ last'.raised = NoError
       /\ ~NotRunning(Found.GAMES, last'.cid)
       /\ CurrentPlayer(Found.GAMES[last'.cid]) = last'.uid

\* C34: when players[c] plays a legal, non-winning reverse with direction d
\* among n >= 3 players, direction becomes -d and the next player to act is
\* players[(c - d) mod n], the player who acted before the current one in
\* the old direction; every later turn advancement uses the new direction:
\* a command that advances the turn once leaves direction as it is and
\* moves the turn from players[c] to players[(c + direction) mod n].
ReverseWithMorePlayers ==
    [][LET g == Found.GAMES[last'.cid]
           h == GAMES'[last'.cid]
           n == Len(g.players)
       IN  /\ (PlaysLegalCard /\ StepCard[2] = "reverse" /\ n >= 3)
                 => /\ last'.cid \in DOMAIN GAMES'
                    /\ h.direction = -1 * g.direction
                    /\ h.current = (g.current - g.direction) % n
                    /\ CurrentPlayer(h) = g.players[((g.current - g.direction) % n) + 1]
                    /\ CurrentPlayer(h) # last'.uid
           /\ (AdvancesOnce /\ n >= 3)
                 => /\ last'.cid \in DOMAIN GAMES'
                    /\ h.direction = g.direction
                    /\ h.current = (g.current + g.direction) % n]_vars

\* among three players the first played a reverse and the turn went back to
\* the third, who played the other red reverse: the direction is forward
\* again and the first player acts next
ReverseWithMorePlayersWitness ==
    /\ Succeeded("uno_play")
    /\ last.cid \in Started
    /\ ParseArgs(last.args).card[2] = "reverse"
    /\ GAMES[last.cid].players = <<1, 2, 3>>
    /\ last.uid = 3
    /\ GAMES[last.cid].direction = 1
    /\ CurrentPlayer(GAMES[last.cid]) = 1
    /\ GAMES[last.cid].pile =
          << <<"wild", "wild4">>, <<"red", "reverse">>, <<"red", "reverse">> >>

\* among three players a numeral was played after a reverse: the turn went
\* from the third player to the second
BackwardsAfterReverse ==
    /\ Succeeded("uno_play")
    /\ last.cid \in Started
    /\ ParseArgs(last.args).card[2] \in Digits
    /\ GAMES[last.cid].players = <<1, 2, 3>>
    /\ last.uid = 3
    /\ GAMES[last.cid].direction = -1
    /\ CurrentPlayer(GAMES[last.cid]) = 2

-----------------------------------------------------------------------------
(* C35: the card played is a card of the hand *)

\* the step handles a /uno_play of the player whose turn it is, naming a card
\* that is not in that player's hand
PlaysCardNotHeld ==
    /\ last'.op = "uno_play"
    /\ ~NotRunning(Found.GAMES, last'.cid)
    /\ CurrentPlayer(Found.GAMES[last'.cid]) = last'.uid
    /\ ParseArgs(last'.args).kind = "card"
    /\ ~InList(StepCard, HandOf(Found.GAMES, last'.cid, last'.uid))

NotHeldReply == <<Reply(<<"You don't have that card.">>)>>

\* the list b is the list a without one copy of x
OneCopyLess(a, b, x) ==
    /\ Len(b) = Len(a) - 1
    /\ Count(b, x) = Count(a, x) - 1
    /\ \A y \in {a[i] : i \in 1..Len(a)} \ {x} : Count(b, y) = Count(a, y)

\* C35: a play of a card that is not in the acting player's hand is rejected
\* and leaves the session unchanged; an accepted play removes exactly one
\* copy of the played card from the acting player's hand (other copies of
\* the same card stay) and makes that card the top of the pile (when the
\* play wins, the session is deleted with the pile).
HeldCardPlayed ==
    [][/\ PlaysCardNotHeld =>
             /\ last'.out = NotHeldReply
             /\ LeftAsFound
       /\ (PlaysHeldCard /\ Playable(StepCard, Found.GAMES[last'.cid])) =>
             IF last'.cid \in DOMAIN GAMES'
             THEN /\ OneCopyLess(Found.GAMES[last'.cid].hands[last'.uid],
                                 GAMES'[last'.cid].hands[last'.uid], StepCard)
                  /\ GAMES'[last'.cid].pile = Append(Found.GAMES[last'.cid].pile, StepCard)
             ELSE Found.GAMES[last'.cid].hands[last'.uid] = <<StepCard>>]_vars

\* the first player of three, who was dealt three wild cards, has played
\* one: two are left in the hand and one is on top of the pile
HeldCardPlayedWitness ==
    /\ Succeeded("uno_play")
    /\ last.cid \in Started
    /\ last.args[1] = "wild"
    /\ Count(GAMES[last.cid].hands[last.uid], <<"wild", "wild">>) = 2
    /\ Len(GAMES[last.cid].hands[last.uid]) = HandSize - 1
    /\ GAMES[last.cid].pile[Len(GAMES[last.cid].pile)] = <<"wild", "wild">>

\* the current player named the card on top of the pile and does not hold it
NotHeldRejected ==
    /\ last.op = "uno_play"
    /\ last.out = NotHeldReply
    /\ last.cid \in Started
    /\ last.args = GAMES[last.cid].pile[Len(GAMES[last.cid].pile)]

-----------------------------------------------------------------------------
(* C36: the session after uno_begin *)

\* the step handles a /uno_begin that starts the game
Begins ==
    /\ last'.op = "uno_begin"
    /\ last'.raised = NoError
    /\ last'.effect

\* the card uno_begin flips: the one below the hands it deals from the end of
\* the deck
Flipped(g) == g.deck[Len(g.deck) - HandSize * Len(g.players)]

\* C36: after a successful begin the session has started = true,
\* current_player_index = 0 (the first player in join order acts first),
\* direction = +1, and current_color equal to the flipped card's colour when
\* that card is not a wild or wild4, and to one of red, green, blue, yellow
\* otherwise; the flipped card's special effect is not applied: it is the
\* pile, every player holds the HandSize cards dealt and the deck holds the
\* rest.
BeginPostconditions ==
    [][Begins =>
          LET g == GAMES[last'.cid]
              h == GAMES'[last'.cid]
              n == Len(g.players)
          IN  /\ h.started
              /\ h.current = 0
              /\ CurrentPlayer(h) = g.players[1]
              /\ h.direction = 1
              /\ Flipped(g)[1] # "wild" => h.current_color = Flipped(g)[1]
              /\ h.current_color \in {"red", "green", "blue", "yellow"}
              /\ h.pile = <<Flipped(g)>>
              /\ h.players = g.players
              /\ \A i \in 1..n : Len(h.hands[h.players[i]]) = HandSize
              /\ h.deck = SubSeq(g.deck, 1, Len(g.deck) - HandSize * n - 1)]_vars

\* a game of three was begun, a wild4 was flipped and blue was chosen: the
\* first player is to act and nobody has drawn four cards
BeginPostconditionsWitness ==
    /\ Succeeded("uno_begin")
    /\ last.cid \in Started
    /\ GAMES[last.cid].pile = << <<"wild", "wild4">> >>
    /\ GAMES[last.cid].current_color = "blue"
    /\ GAMES[last.cid].current = 0
    /\ \A u \in {1, 2, 3} : Len(GAMES[last.cid].hands[u]) = HandSize

-----------------------------------------------------------------------------
(* C37: the pile of a started session *)

\* C37: in every reachable state of a started session the pile is non-empty,
\* so the top rank used by the legality check is always defined; no play,
\* draw or reshuffle empties the pile.
PileNeverEmpty ==
    \A cid \in Started :
        /\ Len(GAMES[cid].pile) >= 1
        /\ GAMES[cid].pile[Len(GAMES[cid].pile)][2] \in
              Digits \cup {"skip", "reverse", "draw2", "wild", "wild4"}

\* a draw has rebuilt the empty deck from the pile of the recovered game:
\* the pile is its former top card alone
PileNeverEmptyWitness ==
    /\ Succeeded("uno_draw")
    /\ last.cid \in Started
    /\ GAMES[last.cid].pile = <<RecoveredPile[Len(RecoveredPile)]>>
    /\ Len(GAMES[last.cid].deck) = Len(RecoveredPile) - 2

-----------------------------------------------------------------------------
(* C38: the current colour of a started session *)

\* C38: in every reachable state of a started session, current_color is one
\* of red, green, blue, yellow: it is never the value wild and never unset,
\* whatever sequence of wild, wild4 and coloured cards has been played and
\* whatever card was flipped at begin.
ColourAlwaysSet ==
    \A cid \in Started : GAMES[cid].current_color \in {"red", "green", "blue", "yellow"}

\* uno_begin flipped a wild4 and chose green; the first player, who holds
\* red cards only, has drawn, and the colour is green still
ColourAlwaysSetWitness ==
    /\ Succeeded("uno_draw")
    /\ last.cid \in Started
    /\ GAMES[last.cid].pile = << <<"wild", "wild4">> >>
    /\ GAMES[last.cid].current_color = "green"
    /\ Len(GAMES[last.cid].hands[last.uid]) = HandSize + 1

\* a wild4 was played on a wild and a colour declared with each
WildOnWild ==
    /\ Succeeded("uno_play")
    /\ last.cid \in Started
    /\ Len(GAMES[last.cid].pile) >= 2
    /\ GAMES[last.cid].pile[Len(GAMES[last.cid].pile)] = <<"wild", "wild4">>
    /\ GAMES[last.cid].pile[Len(GAMES[last.cid].pile) - 1] = <<"wild", "wild">>
    /\ GAMES[last.cid].current_color = last.args[2]

-----------------------------------------------------------------------------
(* C39: the hands of a started session *)

\* C39: in every reachable state of a live started session, every player
\* holds at least one card: a player whose hand becomes empty never remains
\* in a session that continues, because the emptying play always ends in
\* the win being recorded and the session being deleted.  (Stated for the
\* states in which no play is suspended at an await.)
EveryoneHoldsCards ==
    Quiet =>
        \A cid \in Started :
            \A i \in 1..Len(GAMES[cid].players) :
                Len(HandOf(GAMES, cid, GAMES[cid].players[i])) >= 1

-----------------------------------------------------------------------------
(* C40: the current player can act *)

\* the current player of the session g holds a card that is legal to play
CanPlay(g) ==
    LET hand == IF CurrentPlayer(g) \in DOMAIN g.hands THEN g.hands[CurrentPlayer(g)] ELSE <<>>
    IN  \E i \in 1..Len(hand) : Playable(hand[i], g)

\* uno_draw finds a card: in the deck, or in the pile below its top card
CanDraw(g) == Len(g.deck) > 0 \/ Len(g.pile) > 1

\* C40: a started session is never stuck: in every reachable state of a
\* started session, the current player has at least one command that
\* succeeds, either a legal play of a held card or a draw; in particular no
\* reachable state has an empty deck, a pile of a single card and a current
\* player without a playable card.  (Stated for the states in which no
\* handler is suspended at an await.)
NeverStuck ==
    Quiet => \A cid \in Started : CanPlay(GAMES[cid]) \/ CanDraw(GAMES[cid])

====
